---- MODULE Spec2Model ----
(***************************************************************************)
(* Tank simulation backend                                                 *)
(* (Smart_Water_Management_System/water_tank_simulator/seperate_codes/     *)
(* backend.py): replay workers, the pull log EVENT_QUEUE, the latest-state *)
(* cache LATEST_STATE, the push subscribers and the /start, /stop,         *)
(* /events, /latest, /status handlers and the shutdown handler; and the    *)
(* batch simulators of the same directory (app_non_real_time*.py): their   *)
(* worker threads, the shared update queue and the Streamlit script.       *)
(*                                                                         *)
(* Representation.                                                         *)
(*  - A path is <<directory, base name>>; the source id is the base name.  *)
(*  - disk[p] is what the CSV reader yields for p: whether the file        *)
(*    exists and its parsed rows [ts, v] in file order.  A datetime is     *)
(*    [sec, us]; strftime("%Y-%m-%d %H:%M:%S") keeps sec and drops us.     *)
(*  - Raw values are integers.  normalized is the exact fraction           *)
(*    [num, den]; level_m3 rounded to 3 digits is an integer number of     *)
(*    thousandths.                                                         *)
(*  - A thread is an index into worker; its threading.Event is             *)
(*    stop_event[t].  A `with LOCK:` block whose body touches only the     *)
(*    guarded structure is one atomic step; SpecLocks takes and releases   *)
(*    the guards in steps of their own and records the holder in           *)
(*    lockOwner.                                                           *)
(***************************************************************************)
EXTENDS Integers, Sequences, FiniteSets, TLC

VARIABLES
    disk,            \* file system: path -> [exists, rows]
    lockOwner,       \* backend.py:48,59 and Queue.mutex: guard -> who holds it
    bridge,          \* backend.py:62-64 the Redis side: configured, listener, channel, hash
    resp,            \* client -> the /latest or /status response it holds
    ASYNC_LOOP,      \* backend.py:60   (FALSE = None)
    EVENT_QUEUE,     \* backend.py:46   queue.Queue of events
    LATEST_STATE,    \* backend.py:47   name -> snapshot
    DATA_STORE,      \* backend.py:51   insertion-ordered dict: <<[name, info]>>
    WORKER_EVENTS,   \* backend.py:54   name -> thread whose Event it is
    WORKER_THREADS,  \* backend.py:55   name -> thread
    SUBSCRIBERS,     \* backend.py:58   list of subscriber queues (ids)
    stop_event,      \* thread -> is its threading.Event set
    worker,          \* thread -> locals of worker_loop and its position
    nthreads,        \* number of threads created so far
    startH,          \* the /start request in progress (event loop)
    stopH,           \* the /stop request in progress (thread pool)
    pollH,           \* the /events requests in progress (thread pool)
    subq,            \* subscriber id -> contents of its asyncio.Queue
    subst,           \* subscriber id -> kind and state of its connection
    loopCalls,       \* callbacks scheduled with call_soon_threadsafe, FIFO
    taken,           \* subscriber id -> events its stream took from its queue
    \* history (ghost) variables, read by no action guard except the bounds
    published,       \* every EVENT_QUEUE.put so far: <<[ev, by]>>
    ctlLog,          \* the /start and /stop calls that returned, in order
    fanLog,          \* the event of every fan-out so far, in order
    pollLog,         \* calls: /events calls so far; gets: the call id of every
                     \* get_nowait that returned an event; returned: the sum
                     \* of "returned" over the responses sent
    serverDown,      \* backend.py:438 has shutdown_event run
    \* the batch simulators (app_non_real_time*.py)
    app,             \* which script streamlit runs ("" before it is launched)
    UPDATE_QUEUE,    \* the cached deque of updates: <<[upd, by]>>
    RUN_EVENTS,      \* aditya:22  tank name -> thread whose Event it is
    run_event,       \* thread -> is its threading.Event set
    session_state,   \* st.session_state: tank_states, simulation_running,
                     \* worker_threads; rerun: st.rerun() was called
    tank,            \* thread -> locals of run_tank_simulation and its position
    ntanks,          \* number of simulator threads created so far
    pushed           \* history: thread -> every update it appended, in order

vars == <<disk, lockOwner, bridge, resp, ASYNC_LOOP, EVENT_QUEUE, LATEST_STATE, DATA_STORE, WORKER_EVENTS,
          WORKER_THREADS, SUBSCRIBERS, stop_event, worker, nthreads, startH,
          stopH, pollH, subq, subst, loopCalls, taken, published, ctlLog,
          fanLog, pollLog, serverDown, app, UPDATE_QUEUE, RUN_EVENTS, run_event,
          session_state, tank, ntanks, pushed>>

\* the state of the batch simulators
batch == <<app, UPDATE_QUEUE, RUN_EVENTS, run_event, session_state, tank, ntanks, pushed>>

\* the state of the backend
backend == <<lockOwner, bridge, resp, ASYNC_LOOP, EVENT_QUEUE, LATEST_STATE, DATA_STORE,
             WORKER_EVENTS, WORKER_THREADS, SUBSCRIBERS, stop_event, worker, nthreads,
             startH, stopH, pollH, subq, subst, loopCalls, taken, published, ctlLog,
             fanLog, pollLog, serverDown>>

----------------------------------------------------------------------------
(* Bounds of the model *)

MaxThreads == 3      \* threads created in one behaviour
MaxPub == 2          \* Spec: events put on EVENT_QUEUE in one behaviour
MaxCtl == 2          \* Spec: /start and /stop calls in one behaviour
MaxRuns == 2         \* SpecBatch: clicks on Start in one behaviour

Threads == 1..MaxThreads
\* simulator threads: at most two tanks are configured
TankThreads == 1..(2 * MaxRuns)

(* Program constants *)
LevelScale == 10     \* level_m3 = normalized * 10.0
RoundUnits == 1000   \* round(level_m3, 3)
EmptyTs == -1        \* "timestamp": "" of the initial snapshot
EventQueueMaxsize == 0    \* EVENT_QUEUE = Queue(): maxsize 0, no bound
ClientQueueMaxsize == 0   \* q = asyncio.Queue(): maxsize 0, no bound

(* Guards: LATEST_LOCK (line 48), SUBSCRIBERS_LOCK (line 59) and the mutex
   inside queue.Queue that every put, get_nowait and qsize of EVENT_QUEUE
   takes *)
Locks == {"LATEST_LOCK", "SUBSCRIBERS_LOCK", "mutex"}

\* who holds a guard: the worker thread t (t > 0), or the handler or task h
Agent(t, h) == [t |-> t, h |-> h]

Free == Agent(0, "")

----------------------------------------------------------------------------
(* Paths and the file system *)

PA == <<"d1", "A">>
PA2 == <<"d2", "A">>
PB == <<"d1", "B">>
PX == <<"d1", "X">>
PY == <<"d1", "Y">>
Paths == {PA, PA2, PB, PX, PY}
Names == {p[2] : p \in Paths}

\* os.path.splitext(os.path.basename(p))[0]
BaseName(p) == p[2]

Row(sec, us, v) == [ts |-> [sec |-> sec, us |-> us], v |-> v]

\* A.csv: two rows stored out of time order; d2/A.csv: a flat series;
\* B.csv: one row; X.csv does not exist; Y.csv has no numeric row.
Disk0 ==
    [p \in Paths |->
        CASE p = PA  -> [exists |-> TRUE, rows |-> <<Row(2, 0, 2), Row(1, 1, 5)>>]
          [] p = PA2 -> [exists |-> TRUE, rows |-> <<Row(1, 0, 4), Row(1, 0, 4)>>]
          [] p = PB  -> [exists |-> TRUE, rows |-> <<Row(3, 0, 7)>>]
          [] p = PX  -> [exists |-> FALSE, rows |-> <<>>]
          [] OTHER   -> [exists |-> TRUE, rows |-> <<>>]]

----------------------------------------------------------------------------
(* preload_csv *)

TsLess(a, b) == a.sec < b.sec \/ (a.sec = b.sec /\ a.us < b.us)

\* insert r into the sorted sequence s after every row whose ts is <= r.ts
RECURSIVE InsertByTs(_, _)
InsertByTs(r, s) ==
    IF s = <<>> THEN <<r>>
    ELSE IF TsLess(r.ts, Head(s).ts) THEN <<r>> \o s
    ELSE <<Head(s)>> \o InsertByTs(r, Tail(s))

\* sorted(zip(timestamps, values), key=lambda x: x[0]) -- a stable sort
RECURSIVE SortByTs(_)
SortByTs(rows) ==
    IF rows = <<>> THEN <<>>
    ELSE InsertByTs(rows[Len(rows)], SortByTs(SubSeq(rows, 1, Len(rows) - 1)))

SeqMinFirst(s) == s[1]

RECURSIVE SeqMin(_)
SeqMin(s) ==
    IF Len(s) = 1 THEN s[1]
    ELSE LET m == SeqMin(Tail(s)) IN IF s[1] < m THEN s[1] ELSE m

RECURSIVE SeqMax(_)
SeqMax(s) ==
    IF Len(s) = 1 THEN s[1]
    ELSE LET m == SeqMax(Tail(s)) IN IF s[1] > m THEN s[1] ELSE m

NoInfo == [timestamps |-> <<>>, values |-> <<>>, gmin |-> 0, gmax |-> 0, grange |-> 1]

\* grange = float(gmax - gmin) if gmax != gmin else 1.0
Grange(gmin, gmax) == IF gmax # gmin THEN gmax - gmin ELSE 1

preload_csv(p) ==
    IF ~disk[p].exists THEN [info |-> NoInfo, err |-> "File not found"]
    ELSE IF disk[p].rows = <<>> THEN [info |-> NoInfo, err |-> "No numeric rows found"]
    ELSE LET combined == SortByTs(disk[p].rows)
             vals == [i \in 1..Len(combined) |-> combined[i].v]
             gmin == SeqMin(vals)
             gmax == SeqMax(vals)
         IN [info |-> [timestamps |-> [i \in 1..Len(combined) |-> combined[i].ts],
                       values |-> vals, gmin |-> gmin, gmax |-> gmax,
                       grange |-> Grange(gmin, gmax)],
             err |-> ""]

----------------------------------------------------------------------------
(* Dictionaries *)

\* d[name] = info on an insertion-ordered dict kept as <<[name, info]>>
DictSet(d, name, info) ==
    IF \E i \in 1..Len(d) : d[i].name = name
    THEN [i \in 1..Len(d) |-> IF d[i].name = name THEN [name |-> name, info |-> info] ELSE d[i]]
    ELSE Append(d, [name |-> name, info |-> info])

DictKeys(d) == [i \in 1..Len(d) |-> d[i].name]

Range(f) == {f[x] : x \in DOMAIN f}

Last(s) == s[Len(s)]

EmptyDict == [n \in {} |-> 0]

----------------------------------------------------------------------------
(* Initial state: the module's globals (lines 46-60), no thread, no request *)

NoEvent == [tank_id |-> "", timestamp |-> EmptyTs, raw_value |-> 0,
            normalized |-> [num |-> 0, den |-> 1], level_m3 |-> 0,
            progress_step |-> 0, total_updates |-> 0]

\* the None that shutdown puts in a subscriber queue (line 445), as a value
\* of the queue that no worker builds
None == [NoEvent EXCEPT !.tank_id = "None"]

NoWorker == [pc |-> "unborn", name |-> "", info |-> NoInfo, idx |-> 0, event |-> NoEvent,
             redis |-> ""]

\* lines 62-64 and 20-27: on is REDIS_URL and REDIS_AVAILABLE; listening is
\* whether startup subscribed redis_listener to REDIS_CHANNEL; channel holds
\* the messages published and not yet received by the listener; hash is the
\* Redis hash REDIS_LATEST_KEY
NoBridge == [on |-> FALSE, listening |-> FALSE, channel |-> <<>>, hash |-> EmptyDict]

BridgeOn == [NoBridge EXCEPT !.on = TRUE]

\* json.dumps(event) and json.loads(raw): the text of an event and back
JsonDumps(ev) == [json |-> ev]

JsonLoads(raw) == raw.json

IdleStart == [pc |-> "idle", paths |-> <<>>, threads |-> {}]
IdleStop == [pc |-> "idle", threads |-> {}]

\* a simulator thread not yet created
NoTank == [pc |-> "unborn", tank_id |-> "", csv_path |-> <<>>, data |-> <<>>, i |-> 0,
           ev |-> 0]

\* before streamlit runs a script: no session, the cached deque is empty
InitBatch ==
    /\ app = ""
    /\ UPDATE_QUEUE = <<>>
    /\ RUN_EVENTS = EmptyDict
    /\ run_event = [t \in TankThreads |-> FALSE]
    /\ session_state = [tank_states |-> EmptyDict, simulation_running |-> FALSE,
                        worker_threads |-> <<>>, rerun |-> FALSE]
    /\ tank = [t \in TankThreads |-> NoTank]
    /\ ntanks = 0
    /\ pushed = [t \in TankThreads |-> <<>>]

InitRest ==
    /\ InitBatch
    /\ serverDown = FALSE
    /\ lockOwner = [l \in Locks |-> Free]
    /\ ASYNC_LOOP = FALSE
    /\ EVENT_QUEUE = <<>>
    /\ LATEST_STATE = EmptyDict
    /\ DATA_STORE = <<>>
    /\ WORKER_EVENTS = EmptyDict
    /\ WORKER_THREADS = EmptyDict
    /\ SUBSCRIBERS = <<>>
    /\ stop_event = [t \in Threads |-> FALSE]
    /\ worker = [t \in Threads |-> NoWorker]
    /\ nthreads = 0
    /\ startH = IdleStart
    /\ stopH = IdleStop
    /\ published = <<>>
    /\ ctlLog = <<>>

----------------------------------------------------------------------------
(* worker_loop *)

Put(f, k, v) == [x \in DOMAIN f \cup {k} |-> IF x = k THEN v ELSE f[x]]

\* round(x, 3) of the non-negative x = num/den, in thousandths (ties to even)
Round3(num, den) ==
    LET q == (RoundUnits * num) \div den
        r == (RoundUnits * num) % den
    IN IF 2 * r < den THEN q
       ELSE IF 2 * r > den THEN q + 1
       ELSE IF q % 2 = 0 THEN q ELSE q + 1

\* ts = timestamps[idx].strftime("%Y-%m-%d %H:%M:%S")
Strftime(ts) == ts.sec

MakeEventStepOffByOne(name, info, idx) ==
    LET raw_val == info.values[idx + 1]
        num == raw_val - info.gmin
    IN [tank_id |-> name, timestamp |-> Strftime(info.timestamps[idx + 1]),
        raw_value |-> raw_val, normalized |-> [num |-> num, den |-> info.grange],
        level_m3 |-> Round3(LevelScale * num, info.grange),
        progress_step |-> idx + 2, total_updates |-> Len(info.values)]

\* lines 174-186: the event of the reading under the cursor (idx is 0-based)
MakeEvent(name, info, idx) ==
    LET raw_val == info.values[idx + 1]
        num == raw_val - info.gmin
    IN [tank_id |-> name, timestamp |-> Strftime(info.timestamps[idx + 1]),
        raw_value |-> raw_val, normalized |-> [num |-> num, den |-> info.grange],
        level_m3 |-> Round3(LevelScale * num, info.grange),
        progress_step |-> idx + 1, total_updates |-> Len(info.values)]

InitialSnapshot(n) ==
    [level |-> 0, timestamp |-> EmptyTs, progress_step |-> 0, total_updates |-> n,
     status |-> "Running"]

\* a thread that returned ("done") or raised ("crashed"): its locals are gone
Exited(how) == [NoWorker EXCEPT !.pc = how]

\* lines 169-172
worker_loop_init(t) ==
    /\ worker[t].pc = "init"
    /\ LATEST_STATE' = Put(LATEST_STATE, worker[t].name,
                           InitialSnapshot(Len(worker[t].info.values)))
    /\ worker' = [worker EXCEPT ![t].pc = "check", ![t].idx = 0]
    /\ UNCHANGED <<disk, lockOwner, serverDown, batch, bridge, resp, ASYNC_LOOP, EVENT_QUEUE, DATA_STORE, WORKER_EVENTS,
                   WORKER_THREADS, SUBSCRIBERS, stop_event, nthreads, startH, stopH,
                   pollH, subq, subst, loopCalls, taken, published, ctlLog, fanLog,
                   pollLog>>

\* a loop that would not look at its Event
worker_loop_check_unconditional(t) ==
    /\ worker[t].pc = "check"
    /\ worker' = [worker EXCEPT ![t].pc = "put"]
    /\ UNCHANGED <<disk, lockOwner, serverDown, batch, bridge, resp, ASYNC_LOOP, EVENT_QUEUE, LATEST_STATE, DATA_STORE,
                   WORKER_EVENTS, WORKER_THREADS, SUBSCRIBERS, stop_event, nthreads,
                   startH, stopH, pollH, subq, subst, loopCalls, taken, published,
                   ctlLog, fanLog, pollLog>>

\* line 173: while not stop_event.is_set()
worker_loop_check(t) ==
    /\ worker[t].pc = "check"
    /\ worker' = [worker EXCEPT ![t].pc = IF stop_event[t] THEN "final" ELSE "put"]
    /\ UNCHANGED <<disk, lockOwner, serverDown, batch, bridge, resp, ASYNC_LOOP, EVENT_QUEUE, LATEST_STATE, DATA_STORE,
                   WORKER_EVENTS, WORKER_THREADS, SUBSCRIBERS, stop_event, nthreads,
                   startH, stopH, pollH, subq, subst, loopCalls, taken, published,
                   ctlLog, fanLog, pollLog>>

\* a queue that would hold one entry at most
FullAtOne(q, maxsize) == Len(q) >= 1

\* Queue.full(): maxsize > 0 and qsize() >= maxsize
Full(q, maxsize) == maxsize > 0 /\ Len(q) >= maxsize

\* lines 174-188: build the event, EVENT_QUEUE.put(event); put waits while
\* the queue is full
worker_loop_put(t) ==
    /\ worker[t].pc = "put"
    /\ ~Full(EVENT_QUEUE, EventQueueMaxsize)
    /\ LET event == MakeEvent(worker[t].name, worker[t].info, worker[t].idx)
       IN /\ EVENT_QUEUE' = Append(EVENT_QUEUE, event)
          /\ published' = Append(published, [ev |-> event, by |-> t])
          /\ worker' = [worker EXCEPT ![t].event = event, ![t].redis = "",
                           ![t].pc = IF bridge.on THEN "redis" ELSE "update"]
    /\ UNCHANGED <<disk, lockOwner, serverDown, batch, bridge, resp, ASYNC_LOOP, LATEST_STATE, DATA_STORE, WORKER_EVENTS,
                   WORKER_THREADS, SUBSCRIBERS, stop_event, nthreads, startH, stopH,
                   pollH, subq, subst, loopCalls, taken, ctlLog, fanLog, pollLog>>

\* what lines 195-201 store in the hash for the event e
HashEntry(e) ==
    [level |-> e.level_m3, timestamp |-> e.timestamp, progress_step |-> e.progress_step,
     total_updates |-> e.total_updates, status |-> "Running"]

\* a Redis block whose exception would end the thread
worker_loop_redis_raises(t) ==
    /\ worker[t].pc = "redis"
    /\ \E outcome \in {"failed", "published", "mirrored"} :
          /\ bridge' =
                [bridge EXCEPT
                    !.channel = IF outcome # "failed" /\ bridge.listening
                                THEN Append(@, JsonDumps(worker[t].event)) ELSE @,
                    !.hash = IF outcome = "mirrored"
                             THEN Put(@, worker[t].name, HashEntry(worker[t].event)) ELSE @]
          /\ worker' = [worker EXCEPT ![t] =
                IF outcome = "failed" THEN Exited("crashed")
                ELSE [@ EXCEPT !.pc = "update", !.redis = outcome]]
    /\ UNCHANGED <<disk, lockOwner, serverDown, batch, resp, ASYNC_LOOP, EVENT_QUEUE, LATEST_STATE, DATA_STORE,
                   WORKER_EVENTS, WORKER_THREADS, SUBSCRIBERS, stop_event, nthreads,
                   startH, stopH, pollH, subq, subst, loopCalls, taken, published,
                   ctlLog, fanLog, pollLog>>

\* lines 190-203 with Redis configured: from_url, publish, hset inside
\* try/except Exception: pass.  outcome "failed": from_url or publish raised;
\* "published": publish returned and hset raised; "mirrored": both returned.
\* A published message reaches the channel of the listener if it subscribed.
worker_loop_redis(t) ==
    /\ worker[t].pc = "redis"
    /\ \E outcome \in {"failed", "published", "mirrored"} :
          /\ bridge' =
                [bridge EXCEPT
                    !.channel = IF outcome # "failed" /\ bridge.listening
                                THEN Append(@, JsonDumps(worker[t].event)) ELSE @,
                    !.hash = IF outcome = "mirrored"
                             THEN Put(@, worker[t].name, HashEntry(worker[t].event)) ELSE @]
          /\ worker' = [worker EXCEPT ![t].pc = "update", ![t].redis = outcome]
    /\ UNCHANGED <<disk, lockOwner, serverDown, batch, resp, ASYNC_LOOP, EVENT_QUEUE, LATEST_STATE, DATA_STORE,
                   WORKER_EVENTS, WORKER_THREADS, SUBSCRIBERS, stop_event, nthreads,
                   startH, stopH, pollH, subq, subst, loopCalls, taken, published,
                   ctlLog, fanLog, pollLog>>

\* lines 205-212: LATEST_STATE[name].update({...}); a missing key raises
\* KeyError, which ends the thread
worker_loop_update(t) ==
    /\ worker[t].pc = "update"
    /\ LET name == worker[t].name
           e == worker[t].event
       IN IF name \in DOMAIN LATEST_STATE
          THEN /\ LATEST_STATE' = [LATEST_STATE EXCEPT ![name] =
                     [level |-> e.level_m3, timestamp |-> e.timestamp,
                      progress_step |-> e.progress_step,
                      total_updates |-> e.total_updates, status |-> "Running"]]
               /\ worker' = [worker EXCEPT ![t].pc = "fanout"]
          ELSE /\ worker' = [worker EXCEPT ![t] = Exited("crashed")]
               /\ UNCHANGED LATEST_STATE
    /\ UNCHANGED <<disk, lockOwner, serverDown, batch, bridge, resp, ASYNC_LOOP, EVENT_QUEUE, DATA_STORE, WORKER_EVENTS,
                   WORKER_THREADS, SUBSCRIBERS, stop_event, nthreads, startH, stopH,
                   pollH, subq, subst, loopCalls, taken, published, ctlLog, fanLog,
                   pollLog>>

NextIdxWrapEarly(idx, n) == IF idx + 1 >= n - 1 THEN 0 ELSE idx + 1

\* lines 223-225: idx += 1; if idx >= n: idx = 0
NextIdx(idx, n) == IF idx + 1 >= n THEN 0 ELSE idx + 1

\* lines 214-225: under SUBSCRIBERS_LOCK schedule q.put_nowait(event) on the
\* event loop for every registered queue; then sleep and advance the cursor
\* (both local to the thread; event is not read again before line 178
\* rebuilds it)
worker_loop_fanout(t) ==
    /\ worker[t].pc = "fanout"
    /\ IF ASYNC_LOOP
       THEN /\ loopCalls' = loopCalls \o
                   [i \in 1..Len(SUBSCRIBERS) |-> [q |-> SUBSCRIBERS[i], ev |-> worker[t].event]]
            /\ fanLog' = Append(fanLog, worker[t].event)
       ELSE UNCHANGED <<loopCalls, fanLog>>
    /\ worker' = [worker EXCEPT ![t].pc = "check", ![t].event = NoEvent,
                     ![t].idx = NextIdx(worker[t].idx, Len(worker[t].info.values))]
    /\ UNCHANGED <<disk, lockOwner, serverDown, batch, bridge, resp, ASYNC_LOOP, EVENT_QUEUE, LATEST_STATE, DATA_STORE,
                   WORKER_EVENTS, WORKER_THREADS, SUBSCRIBERS, stop_event, nthreads,
                   startH, stopH, pollH, subq, subst, taken, published, ctlLog,
                   pollLog>>

\* a worker that would delete its snapshot when it leaves its loop
worker_loop_final_removing(t) ==
    /\ worker[t].pc = "final"
    /\ LATEST_STATE' = [n \in DOMAIN LATEST_STATE \ {worker[t].name} |-> LATEST_STATE[n]]
    /\ worker' = [worker EXCEPT ![t] = Exited("done")]
    /\ UNCHANGED <<disk, lockOwner, serverDown, batch, bridge, resp, ASYNC_LOOP, EVENT_QUEUE, DATA_STORE,
                   WORKER_EVENTS, WORKER_THREADS, SUBSCRIBERS, stop_event, nthreads,
                   startH, stopH, pollH, subq, subst, loopCalls, taken, published,
                   ctlLog, fanLog, pollLog>>

\* lines 226-228
worker_loop_final(t) ==
    /\ worker[t].pc = "final"
    /\ LATEST_STATE' = IF worker[t].name \in DOMAIN LATEST_STATE
                       THEN [LATEST_STATE EXCEPT ![worker[t].name].status = "Stopped"]
                       ELSE LATEST_STATE
    /\ worker' = [worker EXCEPT ![t] = Exited("done")]
    /\ UNCHANGED <<disk, lockOwner, serverDown, batch, bridge, resp, ASYNC_LOOP, EVENT_QUEUE, DATA_STORE, WORKER_EVENTS,
                   WORKER_THREADS, SUBSCRIBERS, stop_event, nthreads, startH, stopH,
                   pollH, subq, subst, loopCalls, taken, published, ctlLog, fanLog,
                   pollLog>>

\* t.is_alive(): started and not yet returned or raised
IsAlive(t) == worker[t].pc \notin {"unborn", "done", "crashed"}

worker_loop(t) ==
    \/ worker_loop_init(t)
    \/ worker_loop_check(t)
    \/ worker_loop_put(t)
    \/ worker_loop_update(t)
    \/ worker_loop_fanout(t)
    \/ worker_loop_final(t)

----------------------------------------------------------------------------
(* /start *)

RECURSIVE LoadAllFirstError(_, _, _)
LoadAllFirstError(paths, store, errors) ==
    IF paths = <<>> THEN [store |-> store, errors |-> errors]
    ELSE LET p == Head(paths)
             name == BaseName(p)
             r == preload_csv(p)
         IN IF r.err # ""
            THEN [store |-> store, errors |-> Append(errors, [name |-> name, err |-> r.err])]
            ELSE LoadAllFirstError(Tail(paths), DictSet(store, name, r.info), errors)

\* lines 253-259: preload every path in order; a failing path adds one entry
\* to errors and is skipped, a loaded one is stored under its base name
RECURSIVE LoadAll(_, _, _)
LoadAll(paths, store, errors) ==
    IF paths = <<>> THEN [store |-> store, errors |-> errors]
    ELSE LET p == Head(paths)
             name == BaseName(p)
             r == preload_csv(p)
         IN IF r.err # ""
            THEN LoadAll(Tail(paths), store, Append(errors, [name |-> name, err |-> r.err]))
            ELSE LoadAll(Tail(paths), DictSet(store, name, r.info), errors)

\* a returned call: the request and the response
CtlEntry(op, paths, st, errors, tanks) ==
    [op |-> op, paths |-> paths, status |-> st, errors |-> errors, tanks |-> tanks]

start_simulation_load_after_reset(paths) ==
    /\ ASYNC_LOOP
    /\ startH.pc = "idle"
    /\ LET r == LoadAll(paths, <<>>, <<>>)
       IN /\ r.errors # <<>> \/ nthreads + Len(r.store) <= MaxThreads
          /\ DATA_STORE' = r.store
          /\ LATEST_STATE' = EmptyDict
          /\ IF r.errors # <<>>
             THEN /\ ctlLog' = Append(ctlLog, CtlEntry("start", paths, "error", r.errors, <<>>))
                  /\ UNCHANGED startH
             ELSE /\ startH' = [pc |-> "signal", paths |-> paths, threads |-> {}]
                  /\ UNCHANGED ctlLog
    /\ UNCHANGED <<disk, lockOwner, serverDown, batch, bridge, resp, ASYNC_LOOP, EVENT_QUEUE, WORKER_EVENTS,
                   WORKER_THREADS, SUBSCRIBERS, stop_event, worker, nthreads, stopH,
                   pollH, subq, subst, loopCalls, taken, published, fanLog, pollLog>>

\* a /start that would stop the running workers before it loads
start_simulation_load_after_signal(paths) ==
    /\ ASYNC_LOOP
    /\ startH.pc = "idle"
    /\ LET r == LoadAll(paths, <<>>, <<>>)
       IN /\ r.errors # <<>> \/ nthreads + Len(r.store) <= MaxThreads
          /\ DATA_STORE' = r.store
          /\ stop_event' = [t \in Threads |-> stop_event[t] \/ t \in Range(WORKER_EVENTS)]
          /\ IF r.errors # <<>>
             THEN /\ ctlLog' = Append(ctlLog, CtlEntry("start", paths, "error", r.errors, <<>>))
                  /\ UNCHANGED startH
             ELSE /\ startH' = [pc |-> "signal", paths |-> paths, threads |-> {}]
                  /\ UNCHANGED ctlLog
    /\ UNCHANGED <<disk, lockOwner, serverDown, batch, bridge, resp, ASYNC_LOOP, EVENT_QUEUE, LATEST_STATE,
                   WORKER_EVENTS, WORKER_THREADS, SUBSCRIBERS, worker, nthreads, stopH,
                   pollH, subq, subst, loopCalls, taken, published, fanLog, pollLog>>

\* lines 250-261: DATA_STORE.clear(), preload, raise HTTPException on errors
start_simulation_load(paths) ==
    /\ ASYNC_LOOP
    /\ startH.pc = "idle"
    /\ LET r == LoadAll(paths, <<>>, <<>>)
       IN /\ r.errors # <<>> \/ nthreads + Len(r.store) <= MaxThreads
          /\ DATA_STORE' = r.store
          /\ IF r.errors # <<>>
             THEN /\ ctlLog' = Append(ctlLog, CtlEntry("start", paths, "error", r.errors, <<>>))
                  /\ UNCHANGED startH
             ELSE /\ startH' = [pc |-> "signal", paths |-> paths, threads |-> {}]
                  /\ UNCHANGED ctlLog
    /\ UNCHANGED <<disk, lockOwner, serverDown, batch, bridge, resp, ASYNC_LOOP, EVENT_QUEUE, LATEST_STATE, WORKER_EVENTS,
                   WORKER_THREADS, SUBSCRIBERS, stop_event, worker, nthreads, stopH,
                   pollH, subq, subst, loopCalls, taken, published, fanLog, pollLog>>

\* lines 264-266: set every registered Event, list the registered threads
start_simulation_signal ==
    /\ startH.pc = "signal"
    /\ stop_event' = [t \in Threads |-> stop_event[t] \/ t \in Range(WORKER_EVENTS)]
    /\ startH' = [startH EXCEPT !.pc = "join", !.threads = Range(WORKER_THREADS)]
    /\ UNCHANGED <<disk, lockOwner, serverDown, batch, bridge, resp, ASYNC_LOOP, EVENT_QUEUE, LATEST_STATE, DATA_STORE,
                   WORKER_EVENTS, WORKER_THREADS, SUBSCRIBERS, worker, nthreads,
                   stopH, pollH, subq, subst, loopCalls, taken, published, ctlLog,
                   fanLog, pollLog>>

\* lines 266-270: t.join(timeout=0.2) returns when t has exited or when the
\* timeout expires, whichever is first; then both registries are cleared
start_simulation_join ==
    /\ startH.pc = "join"
    /\ WORKER_EVENTS' = EmptyDict
    /\ WORKER_THREADS' = EmptyDict
    /\ startH' = [startH EXCEPT !.pc = "clear", !.threads = {}]
    /\ UNCHANGED <<disk, lockOwner, serverDown, batch, bridge, resp, ASYNC_LOOP, EVENT_QUEUE, LATEST_STATE, DATA_STORE,
                   SUBSCRIBERS, stop_event, worker, nthreads, stopH, pollH, subq,
                   subst, loopCalls, taken, published, ctlLog, fanLog, pollLog>>

\* a restart that would also empty the log
start_simulation_clear_queue ==
    /\ startH.pc = "clear"
    /\ LATEST_STATE' = EmptyDict
    /\ EVENT_QUEUE' = <<>>
    /\ \E h \in (IF bridge.on THEN {EmptyDict, bridge.hash} ELSE {bridge.hash}) :
          bridge' = [bridge EXCEPT !.hash = h]
    /\ startH' = [startH EXCEPT !.pc = "spawn"]
    /\ UNCHANGED <<disk, lockOwner, serverDown, batch, resp, ASYNC_LOOP, DATA_STORE, WORKER_EVENTS,
                   WORKER_THREADS, SUBSCRIBERS, stop_event, worker, nthreads, stopH,
                   pollH, subq, subst, loopCalls, taken, published, ctlLog, fanLog,
                   pollLog>>

\* a restart that would also drop the registered subscriber queues
start_simulation_clear_subscribers ==
    /\ startH.pc = "clear"
    /\ LATEST_STATE' = EmptyDict
    /\ SUBSCRIBERS' = <<>>
    /\ \E h \in (IF bridge.on THEN {EmptyDict, bridge.hash} ELSE {bridge.hash}) :
          bridge' = [bridge EXCEPT !.hash = h]
    /\ startH' = [startH EXCEPT !.pc = "spawn"]
    /\ UNCHANGED <<disk, lockOwner, serverDown, batch, resp, ASYNC_LOOP, EVENT_QUEUE, DATA_STORE, WORKER_EVENTS,
                   WORKER_THREADS, stop_event, worker, nthreads, stopH,
                   pollH, subq, subst, loopCalls, taken, published, ctlLog, fanLog,
                   pollLog>>

\* lines 272-282: LATEST_STATE.clear(); with Redis configured delete the
\* hash, unless that raises (line 281)
start_simulation_clear ==
    /\ startH.pc = "clear"
    /\ LATEST_STATE' = EmptyDict
    /\ \E h \in (IF bridge.on THEN {EmptyDict, bridge.hash} ELSE {bridge.hash}) :
          bridge' = [bridge EXCEPT !.hash = h]
    /\ startH' = [startH EXCEPT !.pc = "spawn"]
    /\ UNCHANGED <<disk, lockOwner, serverDown, batch, resp, ASYNC_LOOP, EVENT_QUEUE, DATA_STORE, WORKER_EVENTS,
                   WORKER_THREADS, SUBSCRIBERS, stop_event, worker, nthreads, stopH,
                   pollH, subq, subst, loopCalls, taken, published, ctlLog, fanLog,
                   pollLog>>

\* the thread created for the i-th entry of DATA_STORE
NewThread(i) == nthreads + i

\* lines 285-292: one Event and one started thread per entry of DATA_STORE
start_simulation_spawn ==
    /\ startH.pc = "spawn"
    /\ LET k == Len(DATA_STORE)
           new == [i \in 1..k |-> NewThread(i)]
       IN /\ worker' = [t \in Threads |->
                 IF \E i \in 1..k : new[i] = t
                 THEN LET i == CHOOSE i \in 1..k : new[i] = t
                      IN [pc |-> "init", name |-> DATA_STORE[i].name,
                          info |-> DATA_STORE[i].info, idx |-> 0, event |-> NoEvent,
                          redis |-> ""]
                 ELSE worker[t]]
          /\ WORKER_EVENTS' =
                 [n \in DOMAIN WORKER_EVENTS \cup {DATA_STORE[i].name : i \in 1..k} |->
                     IF \E i \in 1..k : DATA_STORE[i].name = n
                     THEN new[CHOOSE i \in 1..k : DATA_STORE[i].name = n]
                     ELSE WORKER_EVENTS[n]]
          /\ WORKER_THREADS' =
                 [n \in DOMAIN WORKER_THREADS \cup {DATA_STORE[i].name : i \in 1..k} |->
                     IF \E i \in 1..k : DATA_STORE[i].name = n
                     THEN new[CHOOSE i \in 1..k : DATA_STORE[i].name = n]
                     ELSE WORKER_THREADS[n]]
          /\ nthreads' = nthreads + k
    /\ ctlLog' = Append(ctlLog, CtlEntry("start", startH.paths, "started", <<>>,
                                         DictKeys(DATA_STORE)))
    /\ startH' = IdleStart
    /\ UNCHANGED <<disk, lockOwner, serverDown, batch, bridge, resp, ASYNC_LOOP, EVENT_QUEUE, LATEST_STATE, DATA_STORE,
                   SUBSCRIBERS, stop_event, stopH, pollH, subq, subst, loopCalls,
                   taken, published, fanLog, pollLog>>

----------------------------------------------------------------------------
(* /stop *)

\* a /stop that would list the threads and set no Event
stop_simulation_signal_unset ==
    /\ ASYNC_LOOP
    /\ stopH.pc = "idle"
    /\ stopH' = [pc |-> "join", threads |-> Range(WORKER_THREADS)]
    /\ UNCHANGED <<disk, lockOwner, serverDown, batch, bridge, resp, ASYNC_LOOP, EVENT_QUEUE, LATEST_STATE, DATA_STORE,
                   WORKER_EVENTS, WORKER_THREADS, SUBSCRIBERS, stop_event, worker,
                   nthreads, startH, pollH, subq, subst, loopCalls, taken, published,
                   ctlLog, fanLog, pollLog>>

\* lines 296-298
stop_simulation_signal ==
    /\ ASYNC_LOOP
    /\ stopH.pc = "idle"
    /\ stop_event' = [t \in Threads |-> stop_event[t] \/ t \in Range(WORKER_EVENTS)]
    /\ stopH' = [pc |-> "join", threads |-> Range(WORKER_THREADS)]
    /\ UNCHANGED <<disk, lockOwner, serverDown, batch, bridge, resp, ASYNC_LOOP, EVENT_QUEUE, LATEST_STATE, DATA_STORE,
                   WORKER_EVENTS, WORKER_THREADS, SUBSCRIBERS, worker, nthreads,
                   startH, pollH, subq, subst, loopCalls, taken, published, ctlLog,
                   fanLog, pollLog>>

\* a /stop that would also empty the log
stop_simulation_join_clearing ==
    /\ stopH.pc = "join"
    /\ WORKER_EVENTS' = EmptyDict
    /\ WORKER_THREADS' = EmptyDict
    /\ EVENT_QUEUE' = <<>>
    /\ stopH' = IdleStop
    /\ ctlLog' = Append(ctlLog, CtlEntry("stop", <<>>, "stopped", <<>>, <<>>))
    /\ UNCHANGED <<disk, lockOwner, serverDown, batch, bridge, resp, ASYNC_LOOP, LATEST_STATE, DATA_STORE,
                   SUBSCRIBERS, stop_event, worker, nthreads, startH, pollH, subq,
                   subst, loopCalls, taken, published, fanLog, pollLog>>

\* lines 298-303: the bounded joins, then clear both registries and return
stop_simulation_join ==
    /\ stopH.pc = "join"
    /\ WORKER_EVENTS' = EmptyDict
    /\ WORKER_THREADS' = EmptyDict
    /\ stopH' = IdleStop
    /\ ctlLog' = Append(ctlLog, CtlEntry("stop", <<>>, "stopped", <<>>, <<>>))
    /\ UNCHANGED <<disk, lockOwner, serverDown, batch, bridge, resp, ASYNC_LOOP, EVENT_QUEUE, LATEST_STATE, DATA_STORE,
                   SUBSCRIBERS, stop_event, worker, nthreads, startH, pollH, subq,
                   subst, loopCalls, taken, published, fanLog, pollLog>>

----------------------------------------------------------------------------
(* /status, /latest: what a request made in the current state returns *)

\* lines 339-342
status ==
    [running |-> \E n \in DOMAIN LATEST_STATE : LATEST_STATE[n].status = "Running",
     tanks |-> DOMAIN LATEST_STATE,
     latest |-> LATEST_STATE,
     queue_size |-> Len(EVENT_QUEUE)]

\* lines 332-335 (no Redis configured)
latest == [latest |-> LATEST_STATE]

\* lines 408-436: capture the loop; with Redis configured subscribe to the
\* channel and create the redis_listener task, unless that raises (line 435)
startup_event ==
    /\ ~ASYNC_LOOP
    /\ ASYNC_LOOP' = TRUE
    /\ \E subscribed \in (IF bridge.on THEN BOOLEAN ELSE {FALSE}) :
          bridge' = [bridge EXCEPT !.listening = subscribed]
    /\ UNCHANGED <<disk, lockOwner, serverDown, batch, resp, EVENT_QUEUE, LATEST_STATE, DATA_STORE, WORKER_EVENTS,
                   WORKER_THREADS, SUBSCRIBERS, stop_event, worker, nthreads, startH,
                   stopH, pollH, subq, subst, loopCalls, taken, published, ctlLog,
                   fanLog, pollLog>>

----------------------------------------------------------------------------
(* /events *)

Pollers == {"p1", "p2"}

IdlePoll == [pc |-> "idle", id |-> 0, max |-> 0, events |-> <<>>,
             len0 |-> 0, pub0 |-> 0, get0 |-> 0, pub1 |-> 0, get1 |-> 0]

\* the request arrives: events = [] (line 307); id, len0, pub0, get0 record
\* the call for the properties below
get_events_call(p, max_events) ==
    /\ ASYNC_LOOP
    /\ pollH[p].pc = "idle"
    /\ pollLog' = [pollLog EXCEPT !.calls = @ + 1]
    /\ pollH' = [pollH EXCEPT ![p] =
           [pc |-> "loop", id |-> pollLog.calls + 1, max |-> max_events,
            events |-> <<>>, len0 |-> Len(EVENT_QUEUE), pub0 |-> Len(published),
            get0 |-> Len(pollLog.gets), pub1 |-> 0, get1 |-> 0]]
    /\ UNCHANGED <<disk, lockOwner, serverDown, batch, bridge, resp, ASYNC_LOOP, EVENT_QUEUE, LATEST_STATE, DATA_STORE,
                   WORKER_EVENTS, WORKER_THREADS, SUBSCRIBERS, stop_event, worker,
                   nthreads, startH, stopH, subq, subst, loopCalls, taken, published,
                   ctlLog, fanLog>>

\* EVENT_QUEUE.get_nowait() on a non-empty queue: the oldest entry, removed
GetNowaitPeek(q) == [e |-> Head(q), rest |-> q]

GetNowait(q) == [e |-> Head(q), rest |-> Tail(q)]

\* lines 308-314: one turn of the loop; the response is returned when
\* max_events entries were taken or get_nowait raised Empty
get_events_step(p) ==
    /\ pollH[p].pc = "loop"
    /\ LET h == pollH[p]
           done(evs) == [h EXCEPT !.pc = "idle", !.events = evs,
                            !.pub1 = Len(published),
                            !.get1 = h.get0 + (Len(pollLog.gets) - h.get0)
                                            + (Len(evs) - Len(h.events))]
       IN IF Len(h.events) < h.max /\ EVENT_QUEUE # <<>>
          THEN LET g == GetNowait(EVENT_QUEUE)
                   evs == Append(h.events, g.e)
               IN /\ EVENT_QUEUE' = g.rest
                  /\ pollLog' = [pollLog EXCEPT
                         !.gets = Append(@, h.id),
                         !.returned = IF Len(evs) = h.max THEN @ + Len(evs) ELSE @]
                  /\ pollH' = [pollH EXCEPT ![p] =
                         IF Len(evs) = h.max THEN done(evs)
                         ELSE [h EXCEPT !.events = evs]]
          ELSE /\ pollH' = [pollH EXCEPT ![p] = done(h.events)]
               /\ pollLog' = [pollLog EXCEPT !.returned = @ + Len(h.events)]
               /\ UNCHANGED EVENT_QUEUE
    /\ UNCHANGED <<disk, lockOwner, serverDown, batch, bridge, resp, ASYNC_LOOP, LATEST_STATE, DATA_STORE, WORKER_EVENTS,
                   WORKER_THREADS, SUBSCRIBERS, stop_event, worker, nthreads, startH,
                   stopH, subq, subst, loopCalls, taken, published, ctlLog, fanLog>>

\* line 314: the response of the request p last served
get_events_response(p) ==
    [events |-> pollH[p].events, returned |-> Len(pollH[p].events)]

----------------------------------------------------------------------------
(* /stream/sse, /stream/ws and the event loop *)

Subs == {"s1", "s2"}

\* reg, unreg: the number of fan-outs made when the queue was appended to
\* and removed from SUBSCRIBERS (-1: not yet), for the properties below
FreeSub == [kind |-> "", conn |-> "free", reg |-> -1, unreg |-> -1]

\* coroutines and callbacks run on the event loop one at a time; /start runs
\* there too and does not yield between line 250 and its return
LoopFree == ASYNC_LOOP /\ startH.pc = "idle"

Remove(seq, x) == SelectSeq(seq, LAMBDA y : y # x)

\* a registration that would first copy the backlog of the log into the queue
subscribe_with_backlog(s, kind) ==
    /\ LoopFree
    /\ subst[s].conn = "free"
    /\ SUBSCRIBERS' = Append(SUBSCRIBERS, s)
    /\ subq' = [subq EXCEPT ![s] = EVENT_QUEUE]
    /\ subst' = [subst EXCEPT ![s] = [kind |-> kind, conn |-> "open",
                                       reg |-> Len(fanLog), unreg |-> -1]]
    /\ UNCHANGED <<disk, lockOwner, serverDown, batch, bridge, resp, ASYNC_LOOP, EVENT_QUEUE, LATEST_STATE, DATA_STORE,
                   WORKER_EVENTS, WORKER_THREADS, stop_event, worker, nthreads,
                   startH, stopH, pollH, loopCalls, taken, published, ctlLog,
                   fanLog, pollLog>>

\* lines 375-377 and 388-390: a new queue, appended to SUBSCRIBERS
subscribe(s, kind) ==
    /\ LoopFree
    /\ subst[s].conn = "free"
    /\ SUBSCRIBERS' = Append(SUBSCRIBERS, s)
    /\ subst' = [subst EXCEPT ![s] = [kind |-> kind, conn |-> "open",
                                       reg |-> Len(fanLog), unreg |-> -1]]
    /\ UNCHANGED <<disk, lockOwner, serverDown, batch, bridge, resp, ASYNC_LOOP, EVENT_QUEUE, LATEST_STATE, DATA_STORE,
                   WORKER_EVENTS, WORKER_THREADS, stop_event, worker, nthreads,
                   startH, stopH, pollH, subq, loopCalls, taken, published, ctlLog,
                   fanLog, pollLog>>

stream_sse(s) == subscribe(s, "sse")

websocket_endpoint(s) == subscribe(s, "ws")

\* the event loop runs the oldest scheduled q.put_nowait(event) (line 219)
loop_callback ==
    /\ LoopFree
    /\ loopCalls # <<>>
    /\ subq' = [subq EXCEPT ![Head(loopCalls).q] = Append(@, Head(loopCalls).ev)]
    /\ loopCalls' = Tail(loopCalls)
    /\ UNCHANGED <<disk, lockOwner, serverDown, batch, bridge, resp, ASYNC_LOOP, EVENT_QUEUE, LATEST_STATE, DATA_STORE,
                   WORKER_EVENTS, WORKER_THREADS, SUBSCRIBERS, stop_event, worker,
                   nthreads, startH, stopH, pollH, subst, taken, published, ctlLog,
                   fanLog, pollLog>>

\* lines 418-432: the listener receives the oldest message of the channel and
\* puts the decoded event in every queue of SUBSCRIBERS.  The queues are
\* unbounded, so await q.put(ev) returns without suspending and the block
\* under SUBSCRIBERS_LOCK runs to its end in one turn of the loop.
\* a listener that would also put what it receives on the pull log
redis_listener_logging ==
    /\ LoopFree
    /\ bridge.listening
    /\ bridge.channel # <<>>
    /\ \A s \in Range(SUBSCRIBERS) : ~Full(subq[s], ClientQueueMaxsize)
    /\ LET ev == JsonLoads(Head(bridge.channel))
       IN /\ subq' = [s \in Subs |-> IF s \in Range(SUBSCRIBERS)
                                      THEN Append(subq[s], ev) ELSE subq[s]]
          /\ EVENT_QUEUE' = Append(EVENT_QUEUE, ev)
    /\ bridge' = [bridge EXCEPT !.channel = Tail(@)]
    /\ UNCHANGED <<disk, lockOwner, serverDown, batch, resp, ASYNC_LOOP, LATEST_STATE, DATA_STORE,
                   WORKER_EVENTS, WORKER_THREADS, SUBSCRIBERS, stop_event, worker,
                   nthreads, startH, stopH, pollH, subst, loopCalls, taken, published,
                   ctlLog, fanLog, pollLog>>

redis_listener ==
    /\ LoopFree
    /\ bridge.listening
    /\ bridge.channel # <<>>
    /\ \A s \in Range(SUBSCRIBERS) : ~Full(subq[s], ClientQueueMaxsize)
    /\ LET ev == JsonLoads(Head(bridge.channel))
       IN subq' = [s \in Subs |-> IF s \in Range(SUBSCRIBERS)
                                   THEN Append(subq[s], ev) ELSE subq[s]]
    /\ bridge' = [bridge EXCEPT !.channel = Tail(@)]
    /\ UNCHANGED <<disk, lockOwner, serverDown, batch, resp, ASYNC_LOOP, EVENT_QUEUE, LATEST_STATE, DATA_STORE,
                   WORKER_EVENTS, WORKER_THREADS, SUBSCRIBERS, stop_event, worker,
                   nthreads, startH, stopH, pollH, subst, loopCalls, taken, published,
                   ctlLog, fanLog, pollLog>>

\* the client goes away
client_disconnect(s) ==
    /\ subst[s].conn = "open"
    /\ subst' = [subst EXCEPT ![s].conn = "gone"]
    /\ UNCHANGED <<disk, lockOwner, serverDown, batch, bridge, resp, ASYNC_LOOP, EVENT_QUEUE, LATEST_STATE, DATA_STORE,
                   WORKER_EVENTS, WORKER_THREADS, SUBSCRIBERS, stop_event, worker,
                   nthreads, startH, stopH, pollH, subq, loopCalls, taken, published,
                   ctlLog, fanLog, pollLog>>

\* lines 360-365: ev = await client_queue.get(); None ends the generator,
\* anything else is yielded to the client
sse_event_generator(s) ==
    /\ LoopFree
    /\ subst[s].kind = "sse" /\ subst[s].conn = "open"
    /\ subq[s] # <<>>
    /\ IF Head(subq[s]) = None
       THEN /\ subst' = [subst EXCEPT ![s].conn = "closed"]
            /\ UNCHANGED taken
       ELSE /\ taken' = [taken EXCEPT ![s] = Append(@, Head(subq[s]))]
            /\ UNCHANGED subst
    /\ subq' = [subq EXCEPT ![s] = Tail(@)]
    /\ UNCHANGED <<disk, lockOwner, serverDown, batch, bridge, resp, ASYNC_LOOP, EVENT_QUEUE,
                   LATEST_STATE, DATA_STORE, WORKER_EVENTS, WORKER_THREADS, SUBSCRIBERS,
                   stop_event, worker, nthreads, startH, stopH, pollH, loopCalls,
                   published, ctlLog, fanLog, pollLog>>

\* lines 366-367: the response of a client that went away is cancelled; the
\* generator returns and nothing touches SUBSCRIBERS
sse_cancelled(s) ==
    /\ LoopFree
    /\ subst[s].kind = "sse" /\ subst[s].conn = "gone"
    /\ subst' = [subst EXCEPT ![s].conn = "closed"]
    /\ UNCHANGED <<disk, lockOwner, serverDown, batch, bridge, resp, ASYNC_LOOP, EVENT_QUEUE, LATEST_STATE, DATA_STORE,
                   WORKER_EVENTS, WORKER_THREADS, SUBSCRIBERS, stop_event, worker,
                   nthreads, startH, stopH, pollH, subq, loopCalls, taken, published,
                   ctlLog, fanLog, pollLog>>

\* lines 392-402: ev = await q.get(); None leaves the loop and the finally
\* block removes q from SUBSCRIBERS if it is there; anything else is sent
websocket_send(s) ==
    /\ LoopFree
    /\ subst[s].kind = "ws" /\ subst[s].conn = "open"
    /\ subq[s] # <<>>
    /\ IF Head(subq[s]) = None
       THEN /\ SUBSCRIBERS' = Remove(SUBSCRIBERS, s)
            /\ subst' = [subst EXCEPT ![s].conn = "closed",
                            ![s].unreg = IF @ = -1 THEN Len(fanLog) ELSE @]
            /\ UNCHANGED taken
       ELSE /\ taken' = [taken EXCEPT ![s] = Append(@, Head(subq[s]))]
            /\ UNCHANGED <<SUBSCRIBERS, subst>>
    /\ subq' = [subq EXCEPT ![s] = Tail(@)]
    /\ UNCHANGED <<disk, lockOwner, serverDown, batch, bridge, resp, ASYNC_LOOP, EVENT_QUEUE,
                   LATEST_STATE, DATA_STORE, WORKER_EVENTS, WORKER_THREADS, stop_event,
                   worker, nthreads, startH, stopH, pollH, loopCalls, published,
                   ctlLog, fanLog, pollLog>>

\* lines 392-402: sending to a client that went away raises (None is not
\* sent: it leaves the loop); the finally block removes q from SUBSCRIBERS
websocket_disconnect(s) ==
    /\ LoopFree
    /\ subst[s].kind = "ws" /\ subst[s].conn = "gone"
    /\ subq[s] # <<>>
    /\ taken' = IF Head(subq[s]) = None THEN taken
                ELSE [taken EXCEPT ![s] = Append(@, Head(subq[s]))]
    /\ subq' = [subq EXCEPT ![s] = Tail(@)]
    /\ SUBSCRIBERS' = Remove(SUBSCRIBERS, s)
    /\ subst' = [subst EXCEPT ![s].conn = "closed",
                    ![s].unreg = IF @ = -1 THEN Len(fanLog) ELSE @]
    /\ UNCHANGED <<disk, lockOwner, serverDown, batch, bridge, resp, ASYNC_LOOP, EVENT_QUEUE, LATEST_STATE, DATA_STORE,
                   WORKER_EVENTS, WORKER_THREADS, stop_event, worker, nthreads,
                   startH, stopH, pollH, loopCalls, published, ctlLog, fanLog,
                   pollLog>>

\* a shutdown that would send the sentinels and keep the registry
shutdown_event_keeping ==
    /\ LoopFree
    /\ ~serverDown
    /\ subq' = [s \in Subs |->
                   IF s \in Range(SUBSCRIBERS) /\ ~Full(subq[s], ClientQueueMaxsize)
                   THEN Append(subq[s], None) ELSE subq[s]]
    /\ serverDown' = TRUE
    /\ UNCHANGED <<disk, lockOwner, batch, bridge, resp, ASYNC_LOOP, EVENT_QUEUE, LATEST_STATE,
                   DATA_STORE, WORKER_EVENTS, WORKER_THREADS, SUBSCRIBERS, stop_event,
                   worker, nthreads, startH, stopH, pollH, subst, loopCalls, taken,
                   published, ctlLog, fanLog, pollLog>>

\* lines 438-447: under SUBSCRIBERS_LOCK put None in every registered queue
\* (put_nowait raises on a full queue and the except passes), then clear the
\* registry.  The handler does not await: it is one turn of the loop.
shutdown_event ==
    /\ LoopFree
    /\ ~serverDown
    /\ subq' = [s \in Subs |->
                   IF s \in Range(SUBSCRIBERS) /\ ~Full(subq[s], ClientQueueMaxsize)
                   THEN Append(subq[s], None) ELSE subq[s]]
    /\ SUBSCRIBERS' = <<>>
    /\ subst' = [s \in Subs |->
                    IF s \in Range(SUBSCRIBERS)
                    THEN [subst[s] EXCEPT !.unreg = Len(fanLog)] ELSE subst[s]]
    /\ serverDown' = TRUE
    /\ UNCHANGED <<disk, lockOwner, batch, bridge, resp, ASYNC_LOOP, EVENT_QUEUE, LATEST_STATE,
                   DATA_STORE, WORKER_EVENTS, WORKER_THREADS, stop_event, worker,
                   nthreads, startH, stopH, pollH, loopCalls, taken, published,
                   ctlLog, fanLog, pollLog>>

----------------------------------------------------------------------------
(* Clients reading the cache *)

Readers == {"r1", "r2"}

\* body: the returned map, each entry either a copy of the snapshot (val) or
\* the cached dict itself (ref); at: the map as it was when it was read
NoResp == [kind |-> "", body |-> EmptyDict, at |-> EmptyDict]

\* an entry that would be the cached dict itself
SnapshotAlias(src, n) == [ref |-> TRUE, val |-> src[n]]

\* lines 334, 340: v.copy()
SnapshotCopy(src, n) == [ref |-> FALSE, val |-> src[n]]

\* what the client holding the response of r sees under the key n now: a
\* copy shows what was copied, the cached dict shows the cache
Seen(r, n) ==
    LET e == resp[r].body[n]
    IN IF e.ref /\ n \in DOMAIN LATEST_STATE THEN LATEST_STATE[n] ELSE e.val

\* lines 333-334 and 339-340: under LATEST_LOCK build a new dict of copies.
\* /latest returns the decoded Redis hash instead when Redis is configured,
\* hgetall succeeds and the hash is not empty (lines 320-331).
read_cache(r, kind) ==
    /\ ASYNC_LOOP
    /\ \E src \in (IF kind = "latest" /\ bridge.on /\ bridge.hash # EmptyDict
                   THEN {bridge.hash, LATEST_STATE} ELSE {LATEST_STATE}) :
          resp' = [resp EXCEPT ![r] =
                     [kind |-> kind,
                      body |-> [n \in DOMAIN src |-> SnapshotCopy(src, n)],
                      at |-> src]]
    /\ UNCHANGED <<disk, lockOwner, serverDown, batch, bridge, ASYNC_LOOP, EVENT_QUEUE, LATEST_STATE, DATA_STORE,
                   WORKER_EVENTS, WORKER_THREADS, SUBSCRIBERS, stop_event, worker,
                   nthreads, startH, stopH, pollH, subq, subst, loopCalls, taken,
                   published, ctlLog, fanLog, pollLog>>

latest_call(r) == read_cache(r, "latest")

status_call(r) == read_cache(r, "status")

----------------------------------------------------------------------------
(* Specifications *)

InitQueues ==
    /\ pollH = [p \in Pollers |-> IdlePoll]
    /\ pollLog = [calls |-> 0, gets |-> <<>>, returned |-> 0]
    /\ subq = [s \in Subs |-> <<>>]
    /\ subst = [s \in Subs |-> FreeSub]
    /\ taken = [s \in Subs |-> <<>>]
    /\ loopCalls = <<>>
    /\ fanLog = <<>>
    /\ resp = [r \in Readers |-> NoResp]

Init == disk = Disk0 /\ InitRest /\ InitQueues /\ bridge = NoBridge

\* the calls made so far, returned or in progress
CtlCalls == Len(ctlLog) + (IF startH.pc = "idle" THEN 0 ELSE 1)
                        + (IF stopH.pc = "idle" THEN 0 ELSE 1)

\* the workers, with at most cap events put in one behaviour
Workers(cap) ==
    \E t \in Threads :
        \/ worker_loop_init(t)
        \/ worker_loop_check(t)
        \/ Len(published) < cap /\ worker_loop_put(t)
        \/ worker_loop_update(t)
        \/ worker_loop_fanout(t)
        \/ worker_loop_final(t)

StartSteps ==
    \/ start_simulation_signal
    \/ start_simulation_join
    \/ start_simulation_clear
    \/ start_simulation_spawn

\* Spec: the control plane.  A client calls /start and /stop one after the
\* other (never two at once), against the running workers.
RequestsCtl == {<<PA, PB>>, <<PA2>>, <<PA, PX, PB, PY>>}

Next ==
    \/ startup_event
    \/ \E paths \in RequestsCtl :
          stopH.pc = "idle" /\ CtlCalls < MaxCtl /\ start_simulation_load(paths)
    \/ StartSteps
    \/ startH.pc = "idle" /\ CtlCalls < MaxCtl /\ stop_simulation_signal
    \/ stop_simulation_join
    \/ Workers(MaxPub)

Spec == Init /\ [][Next]_vars

----------------------------------------------------------------------------
(* Properties of the control plane (under Spec) *)

\* a step in which a /start call returns its load error
FailedStartStep == Len(ctlLog') = Len(ctlLog) + 1 /\ Last(ctlLog').status = "error"

\* the source at p does not load: no such file, or no numeric row in it
FailsToLoad(p) == ~disk[p].exists \/ disk[p].rows = <<>>

\* C2: /start is all-or-nothing.  A call goes on to stopping and spawning
\* only if every requested source loads; a call with a failing source returns
\* an error list with one entry for every failing source, in request order,
\* and creates no thread and registers no worker.
C2_StartAllOrNothing ==
    [][/\ startH'.pc # "idle" => SelectSeq(startH'.paths, FailsToLoad) = <<>>
       /\ FailedStartStep =>
            LET e == Last(ctlLog')
                bad == SelectSeq(e.paths, FailsToLoad)
            IN /\ bad # <<>>
               /\ Len(e.errors) = Len(bad)
               /\ \A j \in 1..Len(bad) : e.errors[j].name = BaseName(bad[j])
               /\ nthreads' = nthreads
               /\ worker' = worker
               /\ WORKER_THREADS' = WORKER_THREADS
               /\ WORKER_EVENTS' = WORKER_EVENTS]_vars

\* a /start with two failing and two loading sources has returned its error
\* while workers of an earlier /start are alive
C2_Witness ==
    /\ ctlLog # <<>>
    /\ Last(ctlLog).status = "error"
    /\ Len(Last(ctlLog).errors) = 2
    /\ Len(Last(ctlLog).paths) = 4
    /\ \E t \in Threads : worker[t].pc \in {"init", "check", "put", "update", "fanout"}

\* C3 as stated: after a /start that failed with a load error, /status
\* reports running = false (no snapshot has status Running), whatever ran
\* before the call.
C3_FailedStartThenNoneRunning ==
    (ctlLog # <<>> /\ Last(ctlLog).status = "error") => ~status.running

\* C3 as amended: a /start that fails with a load error changes neither what
\* /status reports nor any worker or cancellation signal; so /status reports
\* zero running sources after it exactly when it did before it.
C3_FailedStartKeepsStatus ==
    [][FailedStartStep =>
          /\ status' = status
          /\ worker' = worker
          /\ stop_event' = stop_event]_vars

\* a /start failed after a successful one, and a snapshot is still Running
C3_Witness ==
    /\ Len(ctlLog) = 2
    /\ ctlLog[1].status = "started"
    /\ ctlLog[2].status = "error"
    /\ status.running

\* the events put for source n so far, oldest first
EventsFor(n) == SelectSeq(published, LAMBDA r : r.ev.tank_id = n)

\* a worker of n has put an event and not yet written it to the cache
InFlight(n) == \E t \in Threads : worker[t].name = n /\ worker[t].pc = "update"

\* C9: outside the in-flight publish window of source n, the level /latest
\* returns for n is the level of the most recent event put for n (stated for
\* a snapshot that already carries an event, progress_step >= 1).
C9_LatestMatchesLog ==
    \A n \in DOMAIN latest.latest :
        (~InFlight(n) /\ latest.latest[n].progress_step >= 1 /\ EventsFor(n) # <<>>)
            => latest.latest[n].level = Last(EventsFor(n)).ev.level_m3

\* C10: once /stop has returned (and no /start was called since), /status
\* reports running = false.
C10_StoppedAfterStop ==
    (ctlLog # <<>> /\ Last(ctlLog).op = "stop" /\ startH.pc = "idle")
        => ~status.running

----------------------------------------------------------------------------
(* SpecRestart: /start [A, B], then /stop, then /start [A], each called *)
(* after the one before has returned *)

NextRestart ==
    \/ startup_event
    \/ ctlLog = <<>> /\ start_simulation_load(<<PA, PB>>)
    \/ StartSteps
    \/ Len(ctlLog) = 1 /\ stop_simulation_signal
    \/ stop_simulation_join
    \/ Len(ctlLog) = 2 /\ start_simulation_load(<<PA>>)
    \/ Workers(MaxPub)

SpecRestart == Init /\ [][NextRestart]_vars

RestartDone ==
    /\ Len(ctlLog) = 3
    /\ ctlLog[1].status = "started" /\ ctlLog[1].tanks = <<"A", "B">>
    /\ ctlLog[2].op = "stop"
    /\ ctlLog[3].status = "started" /\ ctlLog[3].tanks = <<"A">>

\* C4: after /start [A, B], /stop, /start [A] have returned, no event of B
\* is put on the log any more and, once the new worker of A has written its
\* first snapshot, /status lists exactly the source A, with status Running.
C4_RestartRunsOnlyA ==
    [][RestartDone =>
          /\ \A i \in (Len(published) + 1)..Len(published') :
                 published'[i].ev.tank_id # "B"
          /\ (\A t \in Range(WORKER_THREADS) : worker[t].pc # "init")
                 => /\ status.tanks = {"A"}
                    /\ status.latest["A"].status = "Running"]_vars

----------------------------------------------------------------------------
(* SpecReplay: one source with any readings within the bounds, started once *)
(* and stopped once *)

MaxLen == 2          \* SpecReplay: rows in the file
MaxVal == 2          \* SpecReplay: raw values are 0..MaxVal
MaxTicks == 3        \* SpecReplay: events put in one behaviour

RowSet == {Row(sec, 0, v) : sec \in {1, 2}, v \in 0..MaxVal}

RowSeqs == UNION {[1..n -> RowSet] : n \in 1..MaxLen}

InitReplay ==
    /\ disk \in {[Disk0 EXCEPT ![PA].rows = r] : r \in RowSeqs}
    /\ InitRest
    /\ InitQueues
    /\ bridge = NoBridge

NextReplay ==
    \/ startup_event
    \/ ctlLog = <<>> /\ start_simulation_load(<<PA>>)
    \/ StartSteps
    \/ Len(ctlLog) = 1 /\ stop_simulation_signal
    \/ stop_simulation_join
    \/ Workers(MaxTicks)

SpecReplay == InitReplay /\ [][NextReplay]_vars

\* the events thread t has put so far, oldest first
EventsBy(t) == SelectSeq(published, LAMBDA r : r.by = t)

\* the readings of the source at p as loaded: N of them, numbered from 0
Readings(p) == preload_csv(p).info

ReadingNo(k, N) == (k - 1) % N

RawMin(p) ==
    CHOOSE m \in {disk[p].rows[i].v : i \in 1..Len(disk[p].rows)} :
        \A i \in 1..Len(disk[p].rows) : m <= disk[p].rows[i].v

RawMax(p) ==
    CHOOSE m \in {disk[p].rows[i].v : i \in 1..Len(disk[p].rows)} :
        \A i \in 1..Len(disk[p].rows) : m >= disk[p].rows[i].v

\* the fraction x is within [0, 1], is 0, is 1
InUnit(x) == x.den > 0 /\ 0 <= x.num /\ x.num <= x.den
IsZero(x) == x.den > 0 /\ x.num = 0
IsOne(x) == x.den > 0 /\ x.num = x.den

\* C7 as stated: every event's normalized value lies in [0, 1], the minimum
\* raw value maps to 0.0 and the maximum raw value maps to 1.0, flat series
\* included.
C7_MinToZeroMaxToOne ==
    \A i \in 1..Len(published) :
        LET e == published[i].ev
        IN /\ InUnit(e.normalized)
           /\ e.raw_value = RawMin(PA) => IsZero(e.normalized)
           /\ e.raw_value = RawMax(PA) => IsOne(e.normalized)

\* C7 as amended: every event's normalized value lies in [0, 1] and the
\* minimum raw value maps to 0.0; the maximum raw value maps to 1.0 when
\* max > min, and in a flat series (max = min, range 1) every reading maps
\* to 0.0.
C7_NormalizedInUnit ==
    \A i \in 1..Len(published) :
        LET e == published[i].ev
        IN /\ InUnit(e.normalized)
           /\ e.raw_value = RawMin(PA) => IsZero(e.normalized)
           /\ (e.raw_value = RawMax(PA) /\ RawMax(PA) # RawMin(PA)) => IsOne(e.normalized)
           /\ RawMax(PA) = RawMin(PA) => IsZero(e.normalized) /\ e.normalized.den = 1

\* the events of the minimum and of the maximum of a series that is not flat
\* have both been put
C7_Witness ==
    /\ RawMax(PA) # RawMin(PA)
    /\ \E i, j \in 1..Len(published) :
          /\ published[i].ev.raw_value = RawMin(PA) /\ IsZero(published[i].ev.normalized)
          /\ published[j].ev.raw_value = RawMax(PA) /\ IsOne(published[j].ev.normalized)

\* C8: the k-th event a worker puts carries the raw value and the timestamp
\* of reading number (k - 1) mod N of its source; so the event of tick k + N
\* repeats the raw value of tick k, and a source with one reading repeats it
\* on every tick.
C8_LoopingLaw ==
    \A t \in Threads :
        LET es == EventsBy(t)
            N == Len(Readings(PA).values)
        IN \A k \in 1..Len(es) :
               /\ es[k].ev.raw_value = Readings(PA).values[ReadingNo(k, N) + 1]
               /\ es[k].ev.timestamp = Strftime(Readings(PA).timestamps[ReadingNo(k, N) + 1])
               /\ k > N => es[k].ev.raw_value = es[k - N].ev.raw_value

\* a worker of a source with two different readings has put tick N + 1
C8_Witness ==
    \E t \in Threads :
        /\ Len(Readings(PA).values) = 2
        /\ Readings(PA).values[1] # Readings(PA).values[2]
        /\ Len(EventsBy(t)) = 3
        /\ EventsBy(t)[3].ev.raw_value = EventsBy(t)[1].ev.raw_value
        /\ EventsBy(t)[2].ev.raw_value # EventsBy(t)[1].ev.raw_value

----------------------------------------------------------------------------
(* SpecPoll: two sources replayed, two /events handlers that may overlap *)

MaxPolls == 2        \* SpecPoll: /events calls in one behaviour
MaxPollArg == 2      \* SpecPoll: max_events is 0..MaxPollArg

NextPoll ==
    \/ startup_event
    \/ ctlLog = <<>> /\ start_simulation_load(<<PA, PB>>)
    \/ StartSteps
    \/ Workers(MaxPub)
    \/ startH.pc = "idle" /\ Len(ctlLog) = 1 /\ stop_simulation_signal
    \/ stop_simulation_join
    \/ \E p \in Pollers, m \in 0..MaxPollArg :
          pollLog.calls < MaxPolls /\ get_events_call(p, m)
    \/ \E p \in Pollers : get_events_step(p)

SpecPoll == Init /\ [][NextPoll]_vars

\* the events put so far, in put order
PubEvents == [i \in 1..Len(published) |-> published[i].ev]

\* the events /events call number id took, in the order it took them
TakenBy(id) ==
    LET at == SelectSeq([i \in 1..Len(pollLog.gets) |-> i],
                        LAMBDA i : pollLog.gets[i] = id)
    IN [k \in 1..Len(at) |-> PubEvents[at[k]]]

Min(a, b) == IF a < b THEN a ELSE b

\* the call of handler p ran with no other put or get on the log in between
Undisturbed(p) ==
    /\ pollH[p].pc = "idle"
    /\ pollH[p].pub1 = pollH[p].pub0
    /\ pollH[p].get1 - pollH[p].get0 = Len(pollH[p].events)

\* C1: the log is drained in put order and every event goes to one poll.
\* The log always holds exactly the events put and not yet taken, in put
\* order; the events of a poll are the ones its own get_nowait calls took,
\* oldest first, at most max_events of them; a poll never waits; and a poll
\* that ran alone returns min(max_events, log length at the call) events, the
\* segment of the put order that follows the events taken before it.
C1_PollDrainsInOrder ==
    /\ Len(pollLog.gets) <= Len(published)
    /\ EVENT_QUEUE = SubSeq(PubEvents, Len(pollLog.gets) + 1, Len(published))
    /\ \A p \in Pollers :
          pollH[p].id > 0 =>
             /\ get_events_response(p).events = TakenBy(pollH[p].id)
             /\ get_events_response(p).returned <= pollH[p].max
             /\ pollH[p].pc = "loop" => ENABLED get_events_step(p)
             /\ Undisturbed(p) =>
                   /\ get_events_response(p).returned = Min(pollH[p].max, pollH[p].len0)
                   /\ get_events_response(p).events =
                         SubSeq(PubEvents, pollH[p].get0 + 1,
                                pollH[p].get0 + Len(pollH[p].events))

\* two events were put; one poll returned the first, a later poll with
\* max_events 2 returned the second alone, and the log is empty
C1_Witness ==
    /\ Len(published) = 2
    /\ published[1].ev # published[2].ev
    /\ EVENT_QUEUE = <<>>
    /\ \E p, q \in Pollers :
          /\ pollH[p].pc = "idle" /\ pollH[q].pc = "idle"
          /\ pollH[p].id > 0 /\ pollH[p].id < pollH[q].id
          /\ pollH[p].events = <<published[1].ev>>
          /\ pollH[q].max = 2 /\ pollH[q].len0 = 1
          /\ pollH[q].events = <<published[2].ev>>

----------------------------------------------------------------------------
(* SpecSub: one source replayed, two stream clients that come and go *)

NextSub ==
    \/ startup_event
    \/ ctlLog = <<>> /\ start_simulation_load(<<PA>>)
    \/ StartSteps
    \/ startH.pc = "idle" /\ Len(ctlLog) = 1 /\ stop_simulation_signal
    \/ stop_simulation_join
    \/ Workers(MaxPub)
    \/ loop_callback
    \/ \E s \in Subs :
          \/ stream_sse(s)
          \/ websocket_endpoint(s)
          \/ client_disconnect(s)
          \/ sse_event_generator(s)
          \/ sse_cancelled(s)
          \/ websocket_send(s)
          \/ websocket_disconnect(s)

SpecSub == Init /\ [][NextSub]_vars

\* the events scheduled for the queue of s and not yet put in it
Pending(s) ==
    LET calls == SelectSeq(loopCalls, LAMBDA c : c.q = s)
    IN [i \in 1..Len(calls) |-> calls[i].ev]

\* every event put in, or scheduled for, the queue of s so far
Delivered(s) == taken[s] \o subq[s] \o Pending(s)

\* the events fanned out while the queue of s was in SUBSCRIBERS
FannedWhileRegistered(s) ==
    SubSeq(fanLog, subst[s].reg + 1,
           IF subst[s].unreg < 0 THEN Len(fanLog) ELSE subst[s].unreg)

\* C6: a subscriber is delivered exactly the events fanned out while it is
\* registered, in fan-out order: none fanned out before it registered (no
\* backlog), none after it was removed, and every one in between.
C6_DeliveredWhileRegistered ==
    \A s \in Subs :
        subst[s].conn # "free" => Delivered(s) = FannedWhileRegistered(s)

\* a registered first; one event was fanned out; b registered; a second event
\* was fanned out: a holds both, b only the second
C6_Witness ==
    \E a, b \in Subs :
        /\ subst[a].reg = 0 /\ subst[b].reg = 1
        /\ Len(fanLog) = 2
        /\ fanLog[1] # fanLog[2]
        /\ taken[a] \o subq[a] = fanLog
        /\ taken[b] \o subq[b] = <<fanLog[2]>>

----------------------------------------------------------------------------
(* Snapshot status (under Spec) *)

\* the worker the last /start spawned for source n is in its loop, not signalled
CurrentWorkerRuns(n) ==
    /\ n \in DOMAIN WORKER_THREADS
    /\ worker[WORKER_THREADS[n]].pc \in {"check", "put", "redis", "update", "fanout"}
    /\ ~stop_event[WORKER_THREADS[n]]

\* no step takes a snapshot that shows Stopped back to Running (a /start in
\* between removes the snapshot)
StoppedStays ==
    \A n \in DOMAIN LATEST_STATE \cap DOMAIN LATEST_STATE' :
        LATEST_STATE[n].status = "Stopped" => LATEST_STATE'[n].status = "Stopped"

\* no snapshot shows Stopped while the current worker of its source runs
RunningNotStopped ==
    \A n \in DOMAIN LATEST_STATE :
        CurrentWorkerRuns(n) => LATEST_STATE[n].status # "Stopped"

\* C11: the status of a snapshot only moves forward.  A snapshot that shows
\* Stopped does not show Running again without a /start in between, and a
\* snapshot never shows Stopped while the worker of the current start for
\* its source is running, whatever the interleaving of /start, /stop and
\* worker steps.
C11_StatusOnlyForward == [][StoppedStays /\ RunningNotStopped']_vars

----------------------------------------------------------------------------
(* SpecResub: /start [A], stream clients connect, /start [B] *)

NextResub ==
    \/ startup_event
    \/ ctlLog = <<>> /\ start_simulation_load(<<PA>>)
    \/ Len(ctlLog) = 1 /\ start_simulation_load(<<PB>>)
    \/ StartSteps
    \/ Workers(MaxPub)
    \/ loop_callback
    \/ \E s \in Subs :
          \/ Len(ctlLog) = 1 /\ stream_sse(s)
          \/ Len(ctlLog) = 1 /\ websocket_endpoint(s)
          \/ sse_event_generator(s)
          \/ websocket_send(s)

SpecResub == Init /\ [][NextResub]_vars

\* a step of a /start call that got past loading
StartStep == startH.pc # "idle" \/ startH'.pc # "idle"

\* the step of lines 273-274
ClearStep == startH.pc = "clear" /\ startH'.pc = "spawn"

\* the threads the call in progress is going to create have not run
NewWorkersUnborn ==
    \A i \in 1..Len(DATA_STORE) : worker[NewThread(i)].pc = "unborn"

\* C12: a successful /start leaves SUBSCRIBERS as it is and empties
\* LATEST_STATE while the workers it is about to spawn do not exist yet; the
\* queues registered before the restart go on being delivered every event
\* fanned out after it, those of the new workers included.
C12_RestartKeepsSubscribers ==
    [][/\ StartStep => SUBSCRIBERS' = SUBSCRIBERS
       /\ ClearStep => LATEST_STATE' = EmptyDict /\ NewWorkersUnborn
       /\ \A s \in Subs :
              subst'[s].conn # "free" =>
                  /\ s \in Range(SUBSCRIBERS')
                  /\ Delivered(s)' = FannedWhileRegistered(s)']_vars

\* both /start calls returned, and a client that connected between them has
\* taken an event of the old worker (A) and one of the new worker (B)
C12_Witness ==
    /\ Len(ctlLog) = 2 /\ ctlLog[2].status = "started"
    /\ \E s \in Subs :
          /\ s \in Range(SUBSCRIBERS)
          /\ \E i, j \in 1..Len(taken[s]) :
                 taken[s][i].tank_id = "A" /\ taken[s][j].tank_id = "B"

----------------------------------------------------------------------------
(* Disconnects (under SpecSub) *)

\* the handler of s has ended: its generator returned or its endpoint left
\* its loop
HandlerEnded(s) == subst[s].conn = "closed"

\* C13: when the client of a stream goes away, SSE or WebSocket, and its
\* handler ends, its queue is no longer in SUBSCRIBERS; a step that removes
\* a queue keeps the other queues registered, in order, and leaves the log
\* as it is.
C13_DisconnectedRemoved ==
    [][/\ \A s \in Subs : HandlerEnded(s)' => s \notin Range(SUBSCRIBERS')
       /\ \A s \in Subs :
              s \in Range(SUBSCRIBERS) /\ s \notin Range(SUBSCRIBERS') =>
                  /\ SUBSCRIBERS' = Remove(SUBSCRIBERS, s)
                  /\ EVENT_QUEUE' = EVENT_QUEUE /\ published' = published]_vars

----------------------------------------------------------------------------
(* SpecBridge: Redis configured; one source started and stopped, SSE clients *)

InitBridge == disk = Disk0 /\ InitRest /\ InitQueues /\ bridge = BridgeOn

NextBridge ==
    \/ startup_event
    \/ ctlLog = <<>> /\ start_simulation_load(<<PA>>)
    \/ StartSteps
    \/ Len(ctlLog) = 1 /\ stop_simulation_signal
    \/ stop_simulation_join
    \/ Workers(MaxPub)
    \/ \E t \in Threads : worker_loop_redis(t)
    \/ redis_listener
    \/ loop_callback
    \/ \E s \in Subs : stream_sse(s) \/ sse_event_generator(s)

SpecBridge == InitBridge /\ [][NextBridge]_vars

\* the calls line 219 makes for the event e, one per registered queue
FanOutCalls(e) == [i \in 1..Len(SUBSCRIBERS) |-> [q |-> SUBSCRIBERS[i], ev |-> e]]

\* thread t takes a step
Steps(t) == worker'[t] # worker[t]

\* C14: a Redis failure on a tick is swallowed.  The Redis block always
\* hands over to the cache update with the event of the tick, which is the
\* last one the thread put on the log; on a tick whose Redis block failed the
\* cache update writes the event's fields, the fan-out schedules one put of
\* the event per registered queue, and the thread is back at its loop check
\* with the cursor advanced.
C14_BridgeFailureSwallowed ==
    [][\A t \in Threads :
          /\ worker[t].pc = "redis" /\ Steps(t) =>
                /\ worker'[t].pc = "update"
                /\ worker'[t].event = worker[t].event
                /\ Last(EventsBy(t)).ev = worker[t].event
                /\ published' = published
          /\ worker[t].redis = "failed" /\ Steps(t) =>
                /\ worker[t].pc = "update" =>
                      /\ worker'[t].pc = "fanout"
                      /\ LATEST_STATE'[worker[t].name] = HashEntry(worker[t].event)
                /\ worker[t].pc = "fanout" =>
                      /\ worker'[t].pc = "check"
                      /\ worker'[t].idx = NextIdx(worker[t].idx, Len(worker[t].info.values))
                      /\ loopCalls' = loopCalls \o FanOutCalls(worker[t].event)
                      /\ fanLog' = Append(fanLog, worker[t].event)
                /\ worker[t].pc = "check" /\ ~stop_event[t] => worker'[t].pc = "put"]_vars

\* the Redis block of a tick failed; the event of that tick is on the log, in
\* the cache and in the queue of a registered client, nothing reached the
\* channel or the hash, and the worker is about to build its next event
C14_Witness ==
    \E t \in Threads, s \in Subs :
        /\ worker[t].redis = "failed" /\ worker[t].pc = "put"
        /\ bridge.listening /\ bridge.channel = <<>> /\ bridge.hash = EmptyDict
        /\ Len(published) = 1 /\ EVENT_QUEUE = <<published[1].ev>>
        /\ LATEST_STATE[worker[t].name] = HashEntry(published[1].ev)
        /\ subq[s] = <<published[1].ev>>

\* the number of times e occurs in the sequence q
Count(e, q) == Cardinality({i \in 1..Len(q) : q[i] = e})

\* C18: with Redis configured in the same process, as without it, every
\* event a worker fans out reaches each queue registered at that moment
\* exactly once: a queue holds, has handed out or is about to be put each
\* event as many times as it was fanned out while the queue was registered.
C18_DeliveredOnceWithBridge ==
    \A s \in Subs :
        subst[s].conn # "free" =>
            \A i \in 1..Len(Delivered(s)) :
                Count(Delivered(s)[i], Delivered(s))
                    = Count(Delivered(s)[i], FannedWhileRegistered(s))

----------------------------------------------------------------------------
(* SpecLive: one source, with or without Redis, slow consumers; the worker *)
(* threads are scheduled fairly, nothing else is *)

\* the steps of thread t.  A thread that is not signalled stays in its sleep
\* once cap events are on the log or about to be put.
Tick(t, cap) ==
    \/ worker_loop_init(t)
    \/ /\ stop_event[t]
             \/ Len(published) + Cardinality({u \in Threads : worker[u].pc = "put"}) < cap
       /\ worker_loop_check(t)
    \/ worker_loop_put(t)
    \/ worker_loop_redis(t)
    \/ worker_loop_update(t)
    \/ worker_loop_fanout(t)
    \/ worker_loop_final(t)

InitLive ==
    /\ disk = Disk0 /\ InitRest /\ InitQueues
    /\ bridge \in {NoBridge, BridgeOn}

NextLive ==
    \/ startup_event
    \/ ctlLog = <<>> /\ start_simulation_load(<<PA>>)
    \/ StartSteps
    \/ Len(ctlLog) = 1 /\ stop_simulation_signal
    \/ stop_simulation_join
    \/ \E t \in Threads : Tick(t, MaxPub)
    \/ redis_listener
    \/ loop_callback
    \/ stream_sse("s1")
    \/ sse_event_generator("s1")
    \/ pollLog.calls < 1 /\ get_events_call("p1", 1)
    \/ get_events_step("p1")

SpecLive ==
    /\ InitLive /\ [][NextLive]_vars
    /\ \A t \in Threads : WF_vars(Tick(t, MaxPub))

\* C15: a publisher is never blocked by consumers.  With only the worker
\* threads scheduled fairly (no poll, no client taking from its queue, no
\* turn of the event loop is ever required), a worker that is about to put
\* an event completes the tick -- log append, cache update, fan-out -- and
\* is back at its loop check, and from there starts the next tick unless it
\* was signalled.
C15_PublisherNeverBlocked ==
    \A t \in Threads :
        /\ (worker[t].pc = "put") ~> (worker[t].pc = "check")
        /\ (worker[t].pc = "check" /\ ~stop_event[t] /\ Len(published) < MaxPub)
              ~> (worker[t].pc = "put" \/ stop_event[t])

\* two events are on the log, nobody has polled, and a registered client
\* has taken nothing: its two events are still waiting
C15_Witness ==
    /\ Len(published) = 2 /\ EVENT_QUEUE = PubEvents /\ pollLog.calls = 0
    /\ \E s \in Subs :
          /\ taken[s] = <<>>
          /\ subq[s] \o Pending(s) = PubEvents
    /\ \E t \in Threads : worker[t].pc = "check" /\ ~stop_event[t]

----------------------------------------------------------------------------
(* SpecRead: /start [d2/A], /start [A], with or without Redis; two clients *)
(* read the cache once each and keep the response *)

InitRead ==
    /\ disk = Disk0 /\ InitRest /\ InitQueues
    /\ bridge \in {NoBridge, BridgeOn}

NextRead ==
    \/ startup_event
    \/ ctlLog = <<>> /\ start_simulation_load(<<PA2>>)
    \/ Len(ctlLog) = 1 /\ start_simulation_load(<<PA>>)
    \/ StartSteps
    \/ Workers(MaxPub)
    \/ \E t \in Threads : worker_loop_redis(t)
    \/ \E r \in Readers : resp[r].kind = "" /\ latest_call(r)
    \/ \E r \in Readers : resp[r].kind = "" /\ status_call(r)

SpecRead == InitRead /\ [][NextRead]_vars

\* level, timestamp, progress_step and total_updates of snap are those of
\* one write for source n: the initial snapshot of a worker of n (line 172)
\* or the update for one event of n (lines 206-212)
FromOneWrite(n, snap) ==
    \/ /\ snap.level = 0 /\ snap.timestamp = EmptyTs /\ snap.progress_step = 0
       /\ \E p \in Paths :
             /\ BaseName(p) = n /\ ~FailsToLoad(p)
             /\ snap.total_updates = Len(Readings(p).values)
    \/ \E i \in 1..Len(published) :
          LET e == published[i].ev
          IN /\ e.tank_id = n
             /\ snap.level = e.level_m3 /\ snap.timestamp = e.timestamp
             /\ snap.progress_step = e.progress_step
             /\ snap.total_updates = e.total_updates

\* C16: cache reads are isolated copies.  The map a client got from /latest
\* or /status keeps the keys and the snapshots it had when it was read,
\* whatever the workers write and whatever a restart clears afterwards, and
\* the four data fields of every snapshot in it come from one single write.
C16_ReadsAreCopies ==
    \A r \in Readers :
        resp[r].kind # "" =>
            /\ DOMAIN resp[r].body = DOMAIN resp[r].at
            /\ \A n \in DOMAIN resp[r].body :
                   /\ Seen(r, n) = resp[r].at[n]
                   /\ FromOneWrite(n, Seen(r, n))

\* a client holds a /status response showing A after its first event; since
\* then a restart has cleared the cache and the new worker of A has written
\* another event's snapshot
C16_Witness ==
    \E r \in Readers :
        /\ resp[r].kind = "status"
        /\ "A" \in DOMAIN resp[r].body
        /\ resp[r].at["A"].progress_step = 1
        /\ Len(ctlLog) = 2
        /\ "A" \in DOMAIN LATEST_STATE
        /\ LATEST_STATE["A"].progress_step = 1
        /\ LATEST_STATE["A"] # resp[r].at["A"]

----------------------------------------------------------------------------
(* Queue size: one run, then either a restart or a stop, with polls and
   status reads at any moment *)

NextSize ==
    \/ startup_event
    \/ ctlLog = <<>> /\ start_simulation_load(<<PA>>)
    \/ Len(ctlLog) = 1 /\ stopH.pc = "idle" /\ start_simulation_load(<<PA>>)
    \/ StartSteps
    \/ Workers(MaxPub)
    \/ startH.pc = "idle" /\ Len(ctlLog) = 1 /\ stop_simulation_signal
    \/ stop_simulation_join
    \/ \E p \in Pollers, m \in 0..MaxPollArg :
          pollLog.calls < MaxPolls /\ get_events_call(p, m)
    \/ \E p \in Pollers : get_events_step(p)

SpecSize == Init /\ [][NextSize]_vars

RECURSIVE SumLen(_, _)
SumLen(f, S) ==
    IF S = {} THEN 0
    ELSE LET x == CHOOSE x \in S : TRUE IN Len(f[x]) + SumLen(f, S \ {x})

\* the events taken off the log by /events calls that have not returned yet
HeldByPolls ==
    SumLen([p \in Pollers |-> pollH[p].events], {p \in Pollers : pollH[p].pc = "loop"})

\* a step of /start or /stop
ControlStep == startH' # startH \/ stopH' # stopH \/ ctlLog' # ctlLog

\* C17 as stated: in every reachable state the queue_size of /status is the
\* number of events put so far minus the number of events returned by
\* /events so far.
C17_QueueSizeIsPutMinusReturned ==
    status.queue_size = Len(published) - pollLog.returned

\* C17: the queue_size of /status is the number of events put so far minus
\* the number taken off the log by /events so far, and those are the events
\* returned so far plus the ones held by calls still in their loop; every
\* response has returned = len(events); no step of /start or /stop changes
\* the log.
C17_QueueSizeAccounting ==
    [][/\ status.queue_size' = Len(published') - Len(pollLog'.gets)
       /\ Len(pollLog'.gets) = pollLog'.returned + HeldByPolls'
       /\ \A p \in Pollers :
              get_events_response(p).returned' = Len(get_events_response(p).events')
       /\ ControlStep => EVENT_QUEUE' = EVENT_QUEUE]_vars

\* two events were put; one call returned the first, another call has taken
\* the second and is still in its loop; /stop has returned and the log is
\* empty
C17_Witness ==
    /\ Len(published) = 2 /\ pollLog.returned = 1 /\ HeldByPolls = 1
    /\ status.queue_size = 0
    /\ Len(ctlLog) = 2 /\ Last(ctlLog).op = "stop"

----------------------------------------------------------------------------
(* Cancellation is seen at the loop test only (under Spec) *)

\* the thread t is at its loop test (line 173) or has not reached it yet
AtLoopTest(t) == worker[t].pc \in {"init", "check"}

\* C19: once the Event of a worker is set, the worker puts at most one more
\* event on the log, and none if the Event is set while the worker is at
\* its loop test or before its first one.
C19_AtMostOneAfterSignal ==
    \A t \in Threads, k \in 0..MaxPub :
        /\ [](stop_event[t] /\ Len(EventsBy(t)) = k => [](Len(EventsBy(t)) <= k + 1))
        /\ [](stop_event[t] /\ AtLoopTest(t) /\ Len(EventsBy(t)) = k
                => [](Len(EventsBy(t)) = k))

\* a worker whose Event was set after its loop test has put its event and
\* has then left its loop, while another worker, signalled before its first
\* loop test, has exited without an event
C19_Witness ==
    \E t, u \in Threads :
        /\ stop_event[t] /\ worker[t].pc = "done" /\ Len(EventsBy(t)) = 1
        /\ stop_event[u] /\ worker[u].pc = "done" /\ EventsBy(u) = <<>>

----------------------------------------------------------------------------
(* /stop as the last control call, worker threads scheduled fairly:
   /start [A, B], possibly a restart with [B], then /stop *)

\* a step of thread t with no Redis configured
TickLocal(t, cap) ==
    \/ worker_loop_init(t)
    \/ /\ stop_event[t]
             \/ Len(published) + Cardinality({u \in Threads : worker[u].pc = "put"}) < cap
       /\ worker_loop_check(t)
    \/ worker_loop_put(t)
    \/ worker_loop_update(t)
    \/ worker_loop_fanout(t)
    \/ worker_loop_final(t)

NextHalt ==
    \/ startup_event
    \/ ctlLog = <<>> /\ start_simulation_load(<<PA, PB>>)
    \/ Len(ctlLog) = 1 /\ stopH.pc = "idle" /\ start_simulation_load(<<PB>>)
    \/ StartSteps
    \/ /\ startH.pc = "idle" /\ ctlLog # <<>> /\ Last(ctlLog).op = "start"
       /\ stop_simulation_signal
    \/ stop_simulation_join
    \/ \E t \in Threads : TickLocal(t, MaxPub)

SpecHalt ==
    /\ Init /\ [][NextHalt]_vars
    /\ \A t \in Threads : WF_vars(TickLocal(t, MaxPub))

\* /stop has been called (it has set the Events), and it was the last call
StopCalled == stopH.pc # "idle" \/ (ctlLog # <<>> /\ Last(ctlLog).op = "stop")

AllExited == \A t \in Threads : ~IsAlive(t)

SnapshotStopped(n) == n \in DOMAIN LATEST_STATE /\ LATEST_STATE[n].status = "Stopped"

\* every thread has exited, every snapshot of the cache is Stopped and
\* /status answers running: false
Halted ==
    /\ AllExited
    /\ \A n \in DOMAIN LATEST_STATE : SnapshotStopped(n)
    /\ ~status.running

\* C20 as stated: with the worker threads scheduled fairly, once /stop has
\* been called and no /start follows, every worker alive at that moment
\* exits and the snapshot of its source is eventually Stopped for ever, and
\* eventually /status reports running: false for ever.
C20_EveryRunningWorkerLeavesStopped ==
    /\ \A t \in Threads, n \in Names :
          [](StopCalled /\ IsAlive(t) /\ worker[t].name = n
                => <>[](~IsAlive(t) /\ SnapshotStopped(n)))
    /\ [](StopCalled => <>[](~status.running))

\* C20: with the worker threads scheduled fairly, once /stop has been called
\* and no /start follows, eventually and for ever every worker has exited,
\* every snapshot is Stopped and /status reports running: false; each
\* source whose worker is registered when /stop is called ends with a
\* snapshot that is Stopped; and once all workers have exited the log
\* receives no further event.
C20_StopHaltsWorkers ==
    /\ [](StopCalled => <>[]Halted)
    /\ \A n \in Names :
          [](stopH.pc = "join" /\ n \in DOMAIN WORKER_THREADS => <>[]SnapshotStopped(n))
    /\ [][StopCalled /\ AllExited => published' = published]_vars

\* /start [A, B], the restart with [B] and /stop have returned, the three
\* threads they spawned have exited after putting two events, B is Stopped
\* and the cache holds nothing for A
C20_Witness ==
    /\ Len(ctlLog) = 3 /\ Last(ctlLog).op = "stop" /\ nthreads = 3
    /\ Halted /\ SnapshotStopped("B") /\ "A" \notin DOMAIN LATEST_STATE
    /\ Len(published) = MaxPub

----------------------------------------------------------------------------
(* The guards, taken and released in steps of their own: /start [A] and
   /stop, the worker, one SSE client, the Redis listener, one /events call
   and one /status call *)

MaxLockPub == 1      \* SpecLocks: events put in one behaviour

\* a program in which /status would read qsize() inside `with LATEST_LOCK`
LocksOfNested(step) ==
    CASE step \in {"init", "update", "final", "clear"} -> {"LATEST_LOCK"}
      [] step = "status" -> {"LATEST_LOCK", "mutex"}
      [] step \in {"fanout", "subscribe", "listener"} -> {"SUBSCRIBERS_LOCK"}
      [] step \in {"put", "get", "qsize"} -> {"mutex"}
      [] OTHER -> {}

\* the guards a step runs under: `with LATEST_LOCK` at lines 171, 205, 226,
\* 273 and 339, `with SUBSCRIBERS_LOCK` at lines 216, 376 and 430, the
\* queue's mutex inside put (188), get_nowait (310) and qsize (342)
LocksOf(step) ==
    CASE step \in {"init", "update", "final", "clear", "status"} -> {"LATEST_LOCK"}
      [] step \in {"fanout", "subscribe", "listener"} -> {"SUBSCRIBERS_LOCK"}
      [] step \in {"put", "get", "qsize"} -> {"mutex"}
      [] OTHER -> {}

Held(a) == {l \in Locks : lockOwner[l] = a}

guarded ==
    <<disk, serverDown, batch, bridge, resp, ASYNC_LOOP, EVENT_QUEUE, LATEST_STATE, DATA_STORE,
      WORKER_EVENTS, WORKER_THREADS, SUBSCRIBERS, stop_event, worker, nthreads,
      startH, stopH, pollH, subq, subst, loopCalls, taken, published, ctlLog,
      fanLog, pollLog>>

\* Lock.acquire(): a takes one more of the guards L of the block it enters
Acquire(a, L) ==
    /\ Held(a) \subseteq L
    /\ \E l \in L \ Held(a) :
          /\ lockOwner[l] = Free
          /\ lockOwner' = [lockOwner EXCEPT ![l] = a]
    /\ UNCHANGED guarded

\* Lock.release() at the end of the block
Release(a) ==
    /\ \E l \in Held(a) : lockOwner' = [lockOwner EXCEPT ![l] = Free]
    /\ UNCHANGED guarded

\* the block of a that runs A under the guards L, when a is at it
Section(a, L, at, A) ==
    \/ at /\ Acquire(a, L)
    \/ at /\ Held(a) = L /\ A

\* the coroutines of the event loop: one runs at a time, and none of them
\* awaits inside a `with` block except redis_listener, whose q.put on an
\* unbounded queue never suspends
LoopTurn(h) ==
    \A l \in Locks : lockOwner[l].h \notin ({"start", "listener", "loop"} \cup Subs) \ {h}

NextLocks ==
    \/ startup_event
    \/ ctlLog = <<>> /\ ASYNC_LOOP /\ LoopTurn("start") /\ start_simulation_load(<<PA>>)
    \/ Section(Agent(0, "start"), LocksOf(startH.pc), LoopTurn("start"), StartSteps)
    \/ startH.pc = "idle" /\ Len(ctlLog) = 1 /\ stop_simulation_signal
    \/ stop_simulation_join
    \/ \E t \in Threads :
          Section(Agent(t, ""), LocksOf(worker[t].pc), IsAlive(t), Tick(t, MaxLockPub))
    \/ Section(Agent(0, "listener"), LocksOf("listener"),
               LoopTurn("listener") /\ LoopFree /\ bridge.listening
                  /\ bridge.channel # <<>>,
               redis_listener)
    \/ LoopTurn("loop") /\ loop_callback
    \/ Section(Agent(0, "s1"), LocksOf("subscribe"),
               LoopTurn("s1") /\ LoopFree /\ subst["s1"].conn = "free", stream_sse("s1"))
    \/ LoopTurn("s1") /\ sse_event_generator("s1")
    \/ pollLog.calls < 1 /\ get_events_call("p1", 1)
    \/ Section(Agent(0, "p1"), LocksOf("get"), pollH["p1"].pc = "loop",
               get_events_step("p1"))
    \/ Section(Agent(0, "r1"), LocksOf("status"), resp["r1"].kind = "", status_call("r1"))
    \/ resp["r1"].kind = "status" /\ Acquire(Agent(0, "r1"), LocksOf("qsize"))
    \/ \E l \in Locks : lockOwner[l] # Free /\ Release(lockOwner[l])

SpecLocks == InitBridge /\ [][NextLocks]_vars

\* C21: the three guards are never nested.  No thread, handler or task
\* ever holds two of them, and none takes a guard while it holds another:
\* nobody waits for a guard while holding one, so no set of workers and
\* handlers can wait for each other in a cycle.
C21_GuardsNeverNested ==
    [][/\ \A k, l \in Locks :
             lockOwner'[k] = lockOwner'[l] /\ lockOwner'[l] # Free => k = l
       /\ \A l \in Locks :
             lockOwner'[l] \notin {Free, lockOwner[l]} => Held(lockOwner'[l]) = {}]_vars

\* the three guards are held at once, by three different holders: /status
\* copies the cache and /events is in get_nowait while the worker is in
\* its fan-out
C21_Witness ==
    /\ lockOwner["LATEST_LOCK"].h = "r1"
    /\ lockOwner["mutex"].h = "p1"
    /\ lockOwner["SUBSCRIBERS_LOCK"].t > 0
    /\ worker[lockOwner["SUBSCRIBERS_LOCK"].t].pc = "fanout"

\* an event enters the queue of a push subscriber
Delivery == \E s \in Subs : Len(subq'[s]) > Len(subq[s])

\* C22: fan-out delivers outside the registry lock.  No event enters a
\* subscriber queue, from a worker's fan-out or from the Redis listener,
\* while SUBSCRIBERS_LOCK is held.
C22_DeliveryOutsideRegistryLock ==
    [][Delivery => lockOwner["SUBSCRIBERS_LOCK"] = Free]_vars

----------------------------------------------------------------------------
(* Worker failures (under Spec) *)

\* C23: a started worker never fails at run time.  Under every interleaving
\* with /start and /stop no worker thread ends by raising, and a worker
\* about to update its cache entry finds the entry present.
C23_WorkerNeverRaises ==
    \A t \in Threads :
        /\ worker[t].pc # "crashed"
        /\ worker[t].pc = "update" => worker[t].name \in DOMAIN LATEST_STATE

\* C24: at most one worker per source.  No two live threads replay the
\* same source: a thread that can still put an event or write the cache
\* is the only live thread of its source.
C24_OneWorkerPerSource ==
    \A t, u \in Threads :
        IsAlive(t) /\ IsAlive(u) /\ worker[t].name = worker[u].name => t = u

----------------------------------------------------------------------------
(* /stop running in the thread pool while /start runs on the event loop *)

NextOverlap ==
    \/ startup_event
    \/ \E paths \in {<<PA>>, <<PA, PB>>} :
          CtlCalls < MaxCtl /\ start_simulation_load(paths)
    \/ StartSteps
    \/ CtlCalls < MaxCtl /\ stop_simulation_signal
    \/ stop_simulation_join
    \/ Workers(MaxPub)

SpecOverlap == Init /\ [][NextOverlap]_vars

\* C25: no worker escapes the control plane.  Every live thread whose Event
\* is not set is registered in WORKER_EVENTS and WORKER_THREADS, also when
\* /stop runs concurrently with /start.
C25_LiveWorkersRegistered ==
    \A t \in Threads :
        IsAlive(t) /\ ~stop_event[t]
            => t \in Range(WORKER_EVENTS) /\ t \in Range(WORKER_THREADS)

----------------------------------------------------------------------------
(* The pull log and the bridge (under SpecLive, with and without Redis) *)

\* C26: what the listener receives goes to the push subscribers only.  The
\* pull log always holds exactly the events put by the local workers and
\* not yet taken by /events, each once and in put order, and no step of
\* the listener changes it.
C26_ListenerBypassesLog ==
    [][/\ EVENT_QUEUE' = SubSeq(PubEvents', Len(pollLog'.gets) + 1, Len(published'))
       /\ Len(bridge'.channel) < Len(bridge.channel) => EVENT_QUEUE' = EVENT_QUEUE]_vars

\* with Redis, the client has received the one event put so far twice (from
\* the worker and from the listener) and the log holds it once
C26_Witness ==
    /\ bridge.on /\ bridge.channel = <<>>
    /\ Len(published) = 1
    /\ Len(taken["s1"]) + Len(subq["s1"]) = 2
    /\ EVENT_QUEUE = <<published[1].ev>>

----------------------------------------------------------------------------
(* A run of d1/A.csv with one SSE client; the second /start either restarts
   it with d2/A.csv or fails to load one of its sources *)

NextReorder ==
    \/ startup_event
    \/ ctlLog = <<>> /\ start_simulation_load(<<PA>>)
    \/ Len(ctlLog) = 1 /\ start_simulation_load(<<PA2>>)
    \/ Len(ctlLog) = 1 /\ start_simulation_load(<<PA2, PX>>)
    \/ StartSteps
    \/ Workers(MaxPub)
    \/ loop_callback
    \/ stream_sse("s1")
    \/ sse_event_generator("s1")

SpecReorder == Init /\ [][NextReorder]_vars

RECURSIVE IsSubSeq(_, _)
IsSubSeq(a, b) ==
    IF a = <<>> THEN TRUE
    ELSE IF b = <<>> THEN FALSE
    ELSE IF Head(a) = Head(b) THEN IsSubSeq(Tail(a), Tail(b))
    ELSE IsSubSeq(a, Tail(b))

OfSource(seq, n) == SelectSeq(seq, LAMBDA e : e.tank_id = n)

\* C27: per-source order is the same on both delivery paths.  For every
\* source, what a push subscriber has been sent for it is, in the same
\* order, a subsequence of what the log was given for it.
C27_PushOrderFollowsLog ==
    \A s \in Subs, n \in Names :
        IsSubSeq(OfSource(Delivered(s), n), OfSource(PubEvents, n))

----------------------------------------------------------------------------
(* Life of a snapshot (under Spec) *)

CarriesEvent(n, snap, log) ==
    \E i \in 1..Len(log) :
        /\ log[i].ev.tank_id = n
        /\ log[i].ev.progress_step = snap.progress_step
        /\ log[i].ev.level_m3 = snap.level
        /\ log[i].ev.timestamp = snap.timestamp
        /\ log[i].ev.total_updates = snap.total_updates

----------------------------------------------------------------------------
(* A failing /start (under SpecReorder) *)

\* C29: a /start that fails with a load error leaves the running system as
\* it was: the registered workers and their Events, the threads themselves,
\* the cache, the log, the subscriber registry and the client queues are
\* the same after the call as before it.
C29_FailedStartChangesNothing ==
    [][FailedStartStep =>
          /\ WORKER_EVENTS' = WORKER_EVENTS /\ WORKER_THREADS' = WORKER_THREADS
          /\ stop_event' = stop_event /\ worker' = worker
          /\ LATEST_STATE' = LATEST_STATE /\ EVENT_QUEUE' = EVENT_QUEUE
          /\ SUBSCRIBERS' = SUBSCRIBERS /\ subq' = subq]_vars

\* the second /start has failed; the worker of the first is registered,
\* not signalled and about to put its second event, and the client is still
\* registered
C29_Witness ==
    /\ Len(ctlLog) = 2 /\ Last(ctlLog).status = "error"
    /\ SUBSCRIBERS = <<"s1">>
    /\ \E t \in Range(WORKER_THREADS) :
          /\ ~stop_event[t] /\ worker[t].pc = "put"
          /\ Len(EventsBy(t)) = 1 /\ Len(EVENT_QUEUE) = 1

----------------------------------------------------------------------------
(* The log across /start and /stop (under SpecSize) *)

\* C30: the pull log survives the control calls.  No step of /start (a
\* restart included) or of /stop removes or reorders an entry of the log,
\* and every /events call returns, oldest first, the entries its own
\* get_nowait calls took from the one put order: an event put before a
\* restart and not yet polled comes out ahead of the events put after it.
C30_LogSurvivesControl ==
    [][/\ ControlStep => EVENT_QUEUE' = EVENT_QUEUE
       /\ EVENT_QUEUE' = SubSeq(PubEvents', Len(pollLog'.gets) + 1, Len(published'))
       /\ \A p \in Pollers :
             pollH'[p].id > 0 => pollH'[p].events = TakenBy(pollH[p].id)']_vars

\* after a restart, one /events call made when both events were on the log
\* has returned the event of the first run's worker followed by the event
\* of the second run's worker
C30_Witness ==
    /\ Len(ctlLog) = 2 /\ Last(ctlLog).op = "start" /\ Last(ctlLog).status = "started"
    /\ Len(published) = 2 /\ published[1].by = 1 /\ published[2].by = 2
    /\ \E p \in Pollers :
          /\ pollH[p].pc = "idle" /\ pollH[p].pub0 = 2
          /\ pollH[p].events = <<published[1].ev, published[2].ev>>

----------------------------------------------------------------------------
(* The batch simulators: app_non_real_time_aditya.py (with a Stop button and
   one threading.Event per thread) and app_non_real_time_valmik.py (without;
   app_non_real_time.py has the same worker and display loop and passes the
   timestamp text through).  Streamlit executes the script from its first
   line on every run: after a click, after st.rerun(), after any other
   interaction.  A run touches st.session_state, the cached deque and the
   Events; a thread touches the deque and reads its own Event, so a run of
   the script is one step.  Levels are in hundredths of a m3. *)

Apps == {"app_non_real_time_aditya", "app_non_real_time_valmik"}

Stoppable(a) == a = "app_non_real_time_aditya"

LevelUnits == 100    \* round(level, 2)

\* valmik:130 random.uniform(2.0, 9.0): the two ends of the range
InitialLevels == {200, 900}

\* aditya:286-296, valmik:114-118: the files the script is configured with.
\* A.csv loads, X.csv does not exist.
CSV_PATHS(a) == IF Stoppable(a) THEN <<PA, PX>> ELSE <<PA>>

\* aditya:38-49 the tank is named after the base name of its file (the two
\* base names differ, so no suffix is added); valmik:124-134 "Tank <i>"
generate_tank_configs(a) ==
    [i \in 1..Len(CSV_PATHS(a)) |->
        [name |-> IF Stoppable(a) THEN BaseName(CSV_PATHS(a)[i]) ELSE <<"Tank 1", "Tank 2">>[i],
         csv_path |-> CSV_PATHS(a)[i]]]

TankNames(a) == {generate_tank_configs(a)[i].name : i \in 1..Len(CSV_PATHS(a))}

\* aditya:22 `RUN_EVENTS: Dict[...] = {}` is a statement of the script: every
\* run rebinds the name to a new empty dict before any handler reads it
ScriptTop == EmptyDict

\* round(x, 2) of the non-negative x = num/den, in hundredths (ties to even)
Round2(num, den) ==
    LET q == (LevelUnits * num) \div den
        r == (LevelUnits * num) % den
    IN IF 2 * r < den THEN q
       ELSE IF 2 * r > den THEN q + 1
       ELSE IF q % 2 = 0 THEN q ELSE q + 1

\* aditya:93-226 and valmik:27-76: the data points of the file, <<>> when it
\* cannot be loaded; aditya sorts the rows by timestamp, valmik keeps the
\* order of the file
load_and_normalize_data(a, p) ==
    IF ~disk[p].exists \/ disk[p].rows = <<>> THEN <<>>
    ELSE LET rows == IF Stoppable(a) THEN SortByTs(disk[p].rows) ELSE disk[p].rows
             vals == [i \in 1..Len(rows) |-> rows[i].v]
             gmin == SeqMin(vals)
             gmax == SeqMax(vals)
         IN [i \in 1..Len(rows) |->
                [timestamp |-> Strftime(rows[i].ts),
                 normalized_value |-> [num |-> vals[i] - gmin, den |-> Grange(gmin, gmax)]]]

\* UPDATE_QUEUE.append(upd) by thread t
UPDATE_QUEUE_append(t, upd) ==
    /\ UPDATE_QUEUE' = Append(UPDATE_QUEUE, [upd |-> upd, by |-> t])
    /\ pushed' = [pushed EXCEPT ![t] = Append(@, upd)]

\* aditya:234-239, valmik:84-90: load; one Error and return, or total_updates
run_tank_simulation_load(t) ==
    /\ tank[t].pc = "load"
    /\ LET data == load_and_normalize_data(app, tank[t].csv_path)
       IN IF data = <<>>
          THEN /\ UPDATE_QUEUE_append(t, [id |-> tank[t].tank_id, status |-> "Error",
                                          message |-> IF Stoppable(app) THEN "File not found"
                                                      ELSE "Failed to load"])
               /\ tank' = [tank EXCEPT ![t].pc = "done"]
          ELSE /\ UPDATE_QUEUE_append(t, [id |-> tank[t].tank_id, total_updates |-> Len(data)])
               /\ tank' = [tank EXCEPT ![t].pc = "loop", ![t].data = data, ![t].i = 1]
    /\ UNCHANGED <<disk, backend, app, RUN_EVENTS, run_event, session_state, ntanks>>

\* a worker that would append Finished and stay in its loop
run_tank_simulation_next_unfinished(t) ==
    /\ tank[t].pc = "loop"
    /\ IF tank[t].i > Len(tank[t].data)
       THEN /\ UPDATE_QUEUE_append(t, [id |-> tank[t].tank_id, status |-> "Finished"])
            /\ tank' = [tank EXCEPT ![t].pc = "loop"]
       ELSE IF tank[t].ev # 0 /\ run_event[tank[t].ev]
       THEN /\ UPDATE_QUEUE_append(t, [id |-> tank[t].tank_id, status |-> "Error",
                                       message |-> "Stopped by user"])
            /\ tank' = [tank EXCEPT ![t].pc = "done"]
       ELSE /\ tank' = [tank EXCEPT ![t].pc = "push"]
            /\ UNCHANGED <<UPDATE_QUEUE, pushed>>
    /\ UNCHANGED <<disk, backend, app, RUN_EVENTS, run_event, session_state, ntanks>>

\* aditya:241-244 and 255, valmik:93-94 and 107: the top of the for loop.
\* With the data exhausted the thread appends Finished and returns; a thread
\* that has an Event and finds it set appends the Error and returns.
run_tank_simulation_next(t) ==
    /\ tank[t].pc = "loop"
    /\ IF tank[t].i > Len(tank[t].data)
       THEN /\ UPDATE_QUEUE_append(t, [id |-> tank[t].tank_id, status |-> "Finished"])
            /\ tank' = [tank EXCEPT ![t].pc = "done"]
       ELSE IF tank[t].ev # 0 /\ run_event[tank[t].ev]
       THEN /\ UPDATE_QUEUE_append(t, [id |-> tank[t].tank_id, status |-> "Error",
                                       message |-> "Stopped by user"])
            /\ tank' = [tank EXCEPT ![t].pc = "done"]
       ELSE /\ tank' = [tank EXCEPT ![t].pc = "push"]
            /\ UNCHANGED <<UPDATE_QUEUE, pushed>>
    /\ UNCHANGED <<disk, backend, app, RUN_EVENTS, run_event, session_state, ntanks>>

\* aditya:246-253, valmik:95-104: append the level update of point i, sleep
run_tank_simulation_push(t) ==
    /\ tank[t].pc = "push"
    /\ LET d == tank[t].data[tank[t].i]
       IN UPDATE_QUEUE_append(t,
              [id |-> tank[t].tank_id,
               level |-> Round2(LevelScale * d.normalized_value.num, d.normalized_value.den),
               timestamp |-> d.timestamp, progress_step |-> tank[t].i])
    /\ tank' = [tank EXCEPT ![t].pc = "loop", ![t].i = @ + 1]
    /\ UNCHANGED <<disk, backend, app, RUN_EVENTS, run_event, session_state, ntanks>>

run_tank_simulation(t) ==
    \/ run_tank_simulation_load(t)
    \/ run_tank_simulation_next(t)
    \/ run_tank_simulation_push(t)

\* aditya:310-320, valmik:142-151: the tank states of a new run; timestamp
\* and message are the keys the display reads with a default
TankStates(a, level, st) ==
    [n \in TankNames(a) |->
        [level |-> level[n], prev_level |-> level[n], status |-> st, total_updates |-> 1,
         current_step |-> 0, timestamp |-> EmptyTs, message |-> ""]]

\* the initial_level of each tank: aditya:46 0.0, valmik:130 random
ConfigLevels(a) ==
    IF Stoppable(a) THEN {[n \in TankNames(a) |-> 0]} ELSE [TankNames(a) -> InitialLevels]

\* `streamlit run <script>`: the first run of the script finds no
\* "tank_states" in the session and initializes it (aditya:325-326,
\* valmik:171-172); nothing is running, so the rest of the run changes nothing
streamlit_run(a) ==
    /\ app = ""
    /\ app' = a
    /\ \E level \in ConfigLevels(a) :
          session_state' = [tank_states |-> TankStates(a, level, "Idle"),
                            simulation_running |-> FALSE, worker_threads |-> <<>>,
                            rerun |-> FALSE]
    /\ RUN_EVENTS' = ScriptTop
    /\ UNCHANGED <<disk, backend, UPDATE_QUEUE, run_event, tank, ntanks, pushed>>

\* the thread created for the i-th tank of the configuration
NewTank(i) == ntanks + i

\* aditya:349-368, valmik:175-190: the run of the script after a click on
\* Start / Restart.  initialize_session_state_wrapper sets and forgets the
\* Events of RUN_EVENTS (valmik:138-140 clears simulation_running and
\* sleeps) and resets the session; then one thread per tank is started
\* (aditya: with a new Event, kept in RUN_EVENTS) and st.rerun() ends the
\* run.
start_button ==
    /\ app # "" /\ ~session_state.rerun
    /\ LET cfg == generate_tank_configs(app)
           k == Len(cfg)
           new == [i \in 1..k |-> NewTank(i)]
       IN /\ run_event' = [t \in TankThreads |->
                              run_event[t] \/ (Stoppable(app) /\ t \in Range(ScriptTop))]
          /\ \E level \in ConfigLevels(app) :
                session_state' = [tank_states |-> TankStates(app, level, "Loading"),
                                  simulation_running |-> TRUE, worker_threads |-> new,
                                  rerun |-> TRUE]
          /\ RUN_EVENTS' = IF Stoppable(app)
                           THEN [n \in TankNames(app) |->
                                    new[CHOOSE i \in 1..k : cfg[i].name = n]]
                           ELSE ScriptTop
          /\ tank' = [t \in TankThreads |->
                         IF \E i \in 1..k : new[i] = t
                         THEN LET i == CHOOSE i \in 1..k : new[i] = t
                              IN [pc |-> "load", tank_id |-> cfg[i].name,
                                  csv_path |-> cfg[i].csv_path, data |-> <<>>, i |-> 0,
                                  ev |-> IF Stoppable(app) THEN t ELSE 0]
                         ELSE tank[t]]
          /\ ntanks' = ntanks + k
    /\ UNCHANGED <<disk, backend, app, UPDATE_QUEUE, pushed>>

\* aditya:371-376: the run of the script after a click on Stop sets the
\* Events of RUN_EVENTS, clears simulation_running and calls st.rerun()
stop_button ==
    /\ Stoppable(app) /\ ~session_state.rerun
    /\ run_event' = [t \in TankThreads |-> run_event[t] \/ t \in Range(ScriptTop)]
    /\ RUN_EVENTS' = ScriptTop
    /\ session_state' = [session_state EXCEPT !.simulation_running = FALSE, !.rerun = TRUE]
    /\ UNCHANGED <<disk, backend, app, UPDATE_QUEUE, tank, ntanks, pushed>>

\* aditya:389-409, valmik:201-224: one update applied to the tank states
ApplyUpdate(states, upd) ==
    IF upd.id \notin DOMAIN states THEN states
    ELSE LET s == states[upd.id]
         IN [states EXCEPT ![upd.id] =
                IF "total_updates" \in DOMAIN upd
                THEN [s EXCEPT !.total_updates = upd.total_updates, !.status = "Processing"]
                ELSE IF "level" \in DOMAIN upd
                THEN [s EXCEPT !.prev_level = s.level, !.level = upd.level,
                               !.timestamp = upd.timestamp,
                               !.current_step = upd.progress_step,
                               !.status = "Processing"]
                ELSE IF "status" \in DOMAIN upd /\ upd.status \in {"Finished", "Error"}
                THEN [s EXCEPT !.status = upd.status,
                               !.message = IF "message" \in DOMAIN upd THEN upd.message ELSE @]
                ELSE s]

\* aditya:383-387, valmik:199-201: while UPDATE_QUEUE: popleft and apply
RECURSIVE ApplyAll(_, _)
ApplyAll(states, q) ==
    IF q = <<>> THEN states ELSE ApplyAll(ApplyUpdate(states, Head(q).upd), Tail(q))

\* a display loop that would apply only the updates of the threads in
\* st.session_state.worker_threads
ApplyAllOfRun(states, q) ==
    ApplyAll(states, SelectSeq(q, LAMBDA e : e.by \in Range(session_state.worker_threads)))

\* aditya:452-453 every tank Finished or Error; valmik:258-259 every tank
\* Finished
AllDone(a, states) ==
    \A n \in DOMAIN states :
        states[n].status \in (IF Stoppable(a) THEN {"Finished", "Error"} ELSE {"Finished"})

\* a run of the script with no button clicked (after st.rerun() or any other
\* interaction).  aditya:382-409 and 452-460, valmik:196-228 and 258-261:
\* while simulation_running the run empties the deque into the tank states;
\* when every tank is done it clears simulation_running (aditya: sets the
\* Events of RUN_EVENTS and calls st.rerun()).
script_rerun ==
    /\ app # ""
    /\ IF session_state.simulation_running
       THEN LET states == ApplyAll(session_state.tank_states, UPDATE_QUEUE)
                done == AllDone(app, states)
            IN /\ UPDATE_QUEUE' = <<>>
               /\ session_state' = [session_state EXCEPT
                      !.tank_states = states,
                      !.simulation_running = ~done,
                      !.rerun = Stoppable(app) /\ done]
               /\ run_event' = [t \in TankThreads |->
                      run_event[t] \/ (Stoppable(app) /\ done /\ t \in Range(ScriptTop))]
       ELSE /\ session_state' = [session_state EXCEPT !.rerun = FALSE]
            /\ UNCHANGED <<UPDATE_QUEUE, run_event>>
    /\ RUN_EVENTS' = ScriptTop
    /\ UNCHANGED <<disk, backend, app, tank, ntanks, pushed>>

InitApp == disk = Disk0 /\ InitRest /\ InitQueues /\ bridge = NoBridge

\* SpecBatch: one of the scripts is launched; the user clicks Start, Stop
\* (aditya) and anything else in any order, Start at most MaxRuns times, and
\* the threads run at their own pace.  A run that st.rerun()
\* asked for takes place before the next click.
NextBatch ==
    \/ \E a \in Apps : streamlit_run(a)
    \/ ntanks < MaxRuns * Len(CSV_PATHS(app)) /\ start_button
    \/ stop_button
    \/ script_rerun
    \/ \E t \in TankThreads : run_tank_simulation(t)

SpecBatch == InitApp /\ [][NextBatch]_vars

----------------------------------------------------------------------------
(* What a simulator thread pushes (SpecBatch) *)

IsTotal(upd) == "total_updates" \in DOMAIN upd

IsLevel(upd) == "level" \in DOMAIN upd

IsTerminal(upd) == "status" \in DOMAIN upd

\* what thread t has appended so far is the beginning of a well-formed
\* sequence for its tank, and the whole of one when t has returned
WellFormedPushes(t) ==
    LET seq == pushed[t]
        n == Len(seq)
        N == Len(tank[t].data)
        done == tank[t].pc = "done"
        m == IF done THEN n - 1 ELSE n
    IN /\ \A k \in 1..n : seq[k].id = tank[t].tank_id
       /\ \/ n = 0 /\ ~done
          \/ n = 1 /\ done /\ N = 0 /\ IsTerminal(seq[1]) /\ seq[1].status = "Error"
          \/ /\ n >= 1 /\ IsTotal(seq[1]) /\ seq[1].total_updates = N /\ N >= 1
             /\ m - 1 <= N
             /\ \A k \in 2..m : IsLevel(seq[k]) /\ seq[k].progress_step = k - 1
             /\ done => /\ IsTerminal(seq[n])
                        /\ \/ seq[n].status = "Finished" /\ m - 1 = N
                           \/ /\ Stoppable(app) /\ seq[n].status = "Error"
                              /\ seq[n].message = "Stopped by user"

\* C31: every simulator thread pushes a well-formed sequence for its tank to
\* the shared queue: one Error and nothing else when the file does not load;
\* otherwise total_updates with the number N of data points, then level
\* updates with progress_step 1, 2, ... without gap, then one terminal
\* message, Finished after step N or (with a stop Event) the Error "Stopped
\* by user".  Each message goes to the tail of the shared queue, and a thread
\* that has pushed its terminal message pushes nothing more.
C31_WellFormedPushes ==
    [][\A t \in TankThreads :
          /\ WellFormedPushes(t)'
          /\ tank[t].pc = "done" => pushed'[t] = pushed[t]
          /\ pushed'[t] # pushed[t] =>
                /\ pushed'[t] = Append(pushed[t], Last(pushed'[t]))
                /\ UPDATE_QUEUE' = Append(UPDATE_QUEUE,
                                          [upd |-> Last(pushed'[t]), by |-> t])]_vars

\* in the stoppable script the thread of A has pushed total_updates 2, the
\* level updates of steps 1 and 2 and Finished, and the thread of X, whose
\* file does not exist, has pushed its one Error; both have returned
C31_Witness ==
    /\ Stoppable(app)
    /\ \E t, u \in TankThreads :
          /\ tank[t].pc = "done" /\ tank[t].tank_id = "A" /\ Len(pushed[t]) = 4
          /\ pushed[t][1] = [id |-> "A", total_updates |-> 2]
          /\ pushed[t][2].progress_step = 1 /\ pushed[t][3].progress_step = 2
          /\ pushed[t][4] = [id |-> "A", status |-> "Finished"]
          /\ tank[u].pc = "done" /\ tank[u].tank_id = "X"
          /\ pushed[u] = <<[id |-> "X", status |-> "Error", message |-> "File not found"]>>

----------------------------------------------------------------------------
(* Restart of the stoppable simulator (SpecBatch) *)

\* a run of the script empties the queue into the tank states
DrainStep == app' = app /\ UPDATE_QUEUE # <<>> /\ UPDATE_QUEUE' = <<>>

\* C32: a restart isolates runs.  In the stoppable simulator every run of the
\* script that applies the queued updates leaves the tank states as they
\* would be had only the updates pushed by the threads of the current run
\* (those started by the last Start / Restart) been applied: no update of a
\* thread of an earlier run changes status, level or current_step.
C32_RestartIsolatesRuns ==
    [][Stoppable(app) /\ DrainStep =>
          session_state'.tank_states =
              ApplyAllOfRun(session_state.tank_states, UPDATE_QUEUE)]_vars

----------------------------------------------------------------------------
(* Shutdown of the application (SpecDown) *)

\* SpecDown: one /start, of two different sources or of two files with one
\* base name, and then possibly /stop; an SSE and a WebSocket client; the
\* application shuts down at any moment after startup.  The server serves
\* no request once its shutdown handler has run; the worker threads and the
\* callbacks already scheduled go on.
NextDown ==
    \/ startup_event
    \/ \E paths \in {<<PA, PB>>, <<PA, PA2>>} :
          ctlLog = <<>> /\ ~serverDown /\ start_simulation_load(paths)
    \/ StartSteps
    \/ Len(ctlLog) = 1 /\ ~serverDown /\ stop_simulation_signal
    \/ stop_simulation_join
    \/ Workers(MaxPub)
    \/ loop_callback
    \/ ~serverDown /\ stream_sse("s1")
    \/ ~serverDown /\ websocket_endpoint("s2")
    \/ sse_event_generator("s1")
    \/ websocket_send("s2")
    \/ shutdown_event

SpecDown == Init /\ [][NextDown]_vars

\* the step of shutdown_event
ShutdownStep == ~serverDown /\ serverDown'

\* a worker runs lines 214-220
FanOutStep == \E t \in Threads : worker[t].pc = "fanout" /\ worker'[t].pc # "fanout"

\* the stream of s takes the sentinel from its queue
TakesSentinel(s) ==
    subq[s] # <<>> /\ Head(subq[s]) = None /\ subq'[s] = Tail(subq[s])

\* C33: shutdown puts the end-of-stream sentinel in the queue of every
\* subscriber registered at that moment, in no other queue, and empties the
\* registry.  A stream that takes the sentinel ends without emitting it: it
\* emits nothing on that step nor afterwards, and the sentinel is never among
\* what a client received.  A worker fan-out that runs after shutdown
\* schedules no delivery and changes no subscriber queue.
C33_ShutdownEndsStreams ==
    [][/\ ShutdownStep =>
             /\ SUBSCRIBERS' = <<>>
             /\ \A s \in Subs :
                   subq'[s] = IF s \in Range(SUBSCRIBERS)
                              THEN Append(subq[s], None) ELSE subq[s]
       /\ \A s \in Subs :
             /\ TakesSentinel(s) => taken'[s] = taken[s] /\ subst'[s].conn = "closed"
             /\ subst[s].conn = "closed" => taken'[s] = taken[s]
             /\ None \notin Range(taken'[s])
       /\ serverDown /\ FanOutStep => loopCalls' = loopCalls /\ subq' = subq]_vars

\* both clients were registered at shutdown; each received an event and then
\* took the sentinel, which ended its stream; a worker fanned out after the
\* shutdown and nothing is scheduled or queued for either client
C33_Witness ==
    /\ serverDown /\ SUBSCRIBERS = <<>>
    /\ \A s \in {"s1", "s2"} :
          /\ subst[s].conn = "closed" /\ subst[s].unreg >= 0
          /\ Len(taken[s]) = 1 /\ subq[s] = <<>>
          /\ Len(fanLog) > subst[s].unreg
    /\ loopCalls = <<>>

----------------------------------------------------------------------------
(* Workers per requested source (SpecDown) *)

\* the step on which a /start returns "started"
StartedStep ==
    /\ Len(ctlLog') = Len(ctlLog) + 1
    /\ Last(ctlLog').op = "start" /\ Last(ctlLog').status = "started"

\* C34: a successful start spawns exactly one worker for each requested
\* source and lists one id per requested source: when the call returns, the
\* number of ids in the response, the number of registered workers and the
\* number of threads created all equal the number of paths requested, also
\* when two of the paths have the same base name.
C34_OneWorkerPerRequestedSource ==
    [][StartedStep =>
          LET n == Len(Last(ctlLog').paths)
          IN /\ Len(Last(ctlLog').tanks) = n
             /\ Cardinality(DOMAIN WORKER_THREADS') = n
             /\ nthreads' = nthreads + n]_vars

====
